---- MODULE Spec2Model ----
(***************************************************************************)
(* Model of common/on-chip-calib.cpp (librealsense viewer): the            *)
(* on_chip_calib_manager calibration workflows and the                     *)
(* autocalib_notification_model that drives them.                          *)
(*                                                                         *)
(* The specifications of the module:                                       *)
(*   SpecFill   fill_missing_data as a function of the fill-factor table   *)
(*   SpecFetch  one call of fetch_depth_frame                              *)
(*   SpecSelect the stream negotiation of start_viewer                     *)
(*   SpecMetrics one call of get_depth_metrics                             *)
(*   SpecPatch  the table patch at the end of calibrate_fl                 *)
(*   SpecUv     one call of uvmapping_calib::calibrate                     *)
(*   SpecTryStart one call of try_start_viewer                             *)
(*   SpecHealth the decoding of the two health scores in calibrate()       *)
(*   SpecStreams the streams start_viewer enables                          *)
(*   SpecBundles the re-sampling loop of get_depth_metrics, weakly fair    *)
(*   SpecStop    the two overloads of stop_viewer                          *)
(*   SpecRollback the handler of process_flow around the calibration       *)
(*   SpecGather  the frame batches of get_ground_truth, calibrate_fl and   *)
(*               calibrate_uv_mapping                                      *)
(*   SpecTables  the calibration tables of a notification's sessions: the  *)
(*               device's table and flash, _old_calib and _new_calib       *)
(*   SpecFlStreams the streams of a focal-length session                   *)
(*   SpecRectTruth get_ground_truth by the rectangle of the target         *)
(*   SpecSampler the pixels a host-assisted sampler reads in a frame       *)
(*   SpecCalib  one run of on_chip_calib_manager::calibrate()              *)
(*   SpecCalibFair SpecCalib, weakly fair                                  *)
(*   Spec       a notification driving sessions (process_flow on a worker  *)
(*              thread, draw_content / dismiss on the control thread)      *)
(***************************************************************************)
EXTENDS Integers, Sequences, FiniteSets, TLC

VARIABLES
    \* ---- fill_missing_data (SpecFill)
    fm_data,        \* uint16_t data[256] as the call left it
    fm_orig,        \* the table as it was handed to the call
    fm_size,        \* int size
    fm_state,       \* "call" | "returned" | "thrown" | "fault"
    \* ---- on_chip_calib_manager: parameters of a run
    action,             \* auto_calib_action
    host_assistance,    \* int host_assistance (0 | 1)
    version3,           \* _version == 3
    toggle,             \* bool toggle
    speed_fl,           \* int speed_fl
    speed,              \* int speed
    fl_step_count,      \* int fl_step_count
    \* ---- the calibration method the worker is in
    cpc,                \* position in calibrate() / calibrate_fl() /
                        \* calibrate_uv_mapping(), "idle" outside a call
    loc,                \* the method's locals (see LocInit)
    fill_factor,        \* uint16_t fill_factor[256]
    threw_at,           \* position the exception left calibrate() from, or "none"
    \* ---- process_manager / device
    _progress,          \* process_manager::_progress
    fw_calls,           \* firmware calibration calls issued, in order
    _done, _failed, _started,   \* process_manager flags
    wpc,                \* position of the worker thread in process_flow, "idle" without one,
                        \* "race" once a second thread has entered while the first is inside
    \* ---- viewer, sub-device, sensor options and what the manager saved of them
    w,
    \* ---- autocalib_notification_model
    update_state,       \* auto_calib_ui_state
    dismissed,          \* notification_model::dismiss has run
    retry_times,        \* on_chip_calib_manager::retry_times
    \* ---- history of the session in progress
    s0,                 \* the workspace as it was when the session was started
    emitter_writes,     \* write-backs of the saved emitter value (0, 1, 2 = more than one)
    thermal_writes,     \* write-backs to the thermal-compensation option
    last_start,         \* who started the session: "none" | "user" | "auto" | "retry"
    attempts,           \* sessions run since the user last pressed a button to start one
    \* ---- single calls of the helper functions
    fd,                 \* fetch_depth_frame (SpecFetch), see FetchIdle
    sv,                 \* the stream negotiation of start_viewer (SpecSelect), see SelectIdle
    dm,                 \* get_depth_metrics (SpecMetrics), see MetricsIdle
    tb,                 \* the table patch of calibrate_fl (SpecPatch), see PatchIdle
    uv,                 \* uvmapping_calib::calibrate (SpecUv), see UvIdle
    hc                  \* a call of one of the other helpers, hc.unit names it; see HelperIdle

fillVars == <<fm_data, fm_orig, fm_size, fm_state>>

paramVars == <<action, host_assistance, version3, toggle, speed_fl, speed, fl_step_count>>

calibVars == <<cpc, loc, fill_factor, threw_at>>

pmVars == <<_done, _failed, _started>>

uiVars == <<update_state, dismissed, retry_times>>

histVars == <<s0, emitter_writes, thermal_writes, last_start, attempts>>

sessionVars == <<pmVars, wpc, w, uiVars, histVars>>

unitVars == <<fd, sv, dm, tb, uv, hc>>

vars == <<fillVars, unitVars, paramVars, calibVars, _progress, fw_calls, sessionVars>>

(***************************************************************************)
(* Bounds.  The fill-factor table has 256 slots in the code; the model     *)
(* keeps the relations between the sizes (total_frames = 256 fills the     *)
(* whole table, 120 and 60 are shorter) on a table of TableCap slots.      *)
(***************************************************************************)
TableCap == 5
\* samples stored in the table of SpecFill are 0..MaxFill
MaxFill == 2

Slots == 0 .. (TableCap - 1)

ZeroTable == [i \in Slots |-> 0]

(***************************************************************************)
(* fill_missing_data                                                       *)
(***************************************************************************)

\* while (data[start++] == 0) ++counter;   the index of the first non-zero
\* entry, TableCap when the scan runs off the end of the array
FirstNonZero(data) ==
    IF \E i \in Slots : data[i] # 0
    THEN CHOOSE i \in Slots : data[i] # 0 /\ \A j \in Slots : j < i => data[j] = 0
    ELSE TableCap

\* data[j] = static_cast<uint16_t>(tmp * (j - start + 1) + data[start - 1] + 0.5f)
\* with tmp = (data[end] - data[start - 1]) / (end - start + 1), exact arithmetic
InterpValue(data, start, end, j) ==
    LET n == end - start + 1
        d == data[end] - data[start - 1]
        k == j - start + 1
    IN  (2 * d * k + 2 * n * data[start - 1] + n) \div (2 * n)

Interpolate(data, start, end) ==
    [j \in Slots |-> IF j >= start /\ j < end THEN InterpValue(data, start, end, j)
                     ELSE data[j]]

\* the body of   for (int i = 0; i < size; ++i)   from iteration i on
RECURSIVE FillLoop(_, _, _, _, _)
FillLoop(data, size, i, start, end) ==
    IF i >= size THEN [data |-> data, start |-> start, end |-> end]
    ELSE LET s1 == IF data[i] = 0 THEN i ELSE start
             e1 == IF s1 # 0 /\ data[i] # 0 THEN i ELSE end
         IN  IF s1 # 0 /\ e1 # 0
             THEN FillLoop(Interpolate(data, s1, e1), size, i + 1, 0, 0)
             ELSE FillLoop(data, size, i + 1, s1, e1)

\* for (int i = 0; i < counter; ++i) data[i] = data[counter];
FillLeading(data, counter) ==
    [i \in Slots |-> IF i < counter THEN data[counter] ELSE data[i]]

\* if (start != 0 && end == 0) for (i = start; i < size; ++i) data[i] = data[start - 1];
FillTrailing(r, size) ==
    IF r.start # 0 /\ r.end = 0
    THEN [i \in Slots |-> IF i >= r.start /\ i < size THEN r.data[r.start - 1]
                          ELSE r.data[i]]
    ELSE r.data

\* What the scan of an all-zero array can do once it has left the array:
\* find a non-zero word behind it, or fault.
OobOutcomes == {"nonzero_found", "fault"}

\* fill_missing_data(data, size); oob resolves the read past the array
fill_missing_data(data, size, oob) ==
    LET counter == FirstNonZero(data)
    IN  IF counter = TableCap
        THEN \* every slot is zero: data[256] and beyond are read
             IF oob = "fault" THEN [outcome |-> "fault", data |-> data]
             ELSE [outcome |-> "thrown", data |-> data]
        ELSE IF (counter + 1) + 2 > size
        THEN [outcome |-> "thrown", data |-> data]
        ELSE [outcome |-> "returned",
              data |-> FillTrailing(FillLoop(FillLeading(data, counter), size, 0, 0, 0), size)]

(***************************************************************************)
(* fetch_depth_frame (102-132).  fd is the call:                           *)
(*   streams   _viewer.streams in iteration order; of each stream:         *)
(*             selected  its original_profile is among the selected ones   *)
(*             depth     its texture's last frame is a depth frame         *)
(*   timeout   timeout_ms, in rounds of the 10 ms sleep                    *)
(*   elapsed   now - start_time, in the same rounds                        *)
(*   state     "idle" | "polling" | "returned" | "thrown"                  *)
(*   res       the stream whose frame is returned, 0 for the empty frame   *)
(***************************************************************************)
\* the other variables while a helper is called on its own
restVars == <<fillVars, paramVars, calibVars, _progress, fw_calls, sessionVars>>
\* all variables but hc
notHc == <<fd, sv, dm, tb, uv, restVars>>
\* no call of a helper that hc follows
HelperIdle == [unit |-> "none"]

MaxStreams == 2
MaxTimeout == 2

\* the other variables while a helper is called on its own

\* the body of   for (auto&& stream : _viewer.streams)   from stream i on;
\* late: now - start_time > timeout_ms, fresh[i]: now - last_frame < 100 ms
RECURSIVE FetchScan(_, _, _, _, _, _)
FetchScan(streams, fresh, late, i, arrived, res) ==
    IF i > Len(streams) THEN [thrown |-> FALSE, arrived |-> arrived, res |-> res]
    ELSE IF ~streams[i].selected
         THEN FetchScan(streams, fresh, late, i + 1, arrived, res)
    ELSE IF late THEN [thrown |-> TRUE, arrived |-> arrived, res |-> res]
    ELSE IF fresh[i] /\ streams[i].depth
         THEN FetchScan(streams, fresh, late, i + 1, TRUE, i)
    ELSE FetchScan(streams, fresh, late, i + 1, arrived, res)

\* one round of while (!frame_arrived): the scan of the streams and the sleep;
\* the clock is followed until it is two rounds past the timeout
FetchPoll ==
    /\ fd.state = "polling"
    /\ fd.elapsed <= fd.timeout + 1
    /\ \E fresh \in [1 .. Len(fd.streams) -> BOOLEAN] :
         LET r == FetchScan(fd.streams, fresh, fd.elapsed > fd.timeout, 1, FALSE, 0)
         IN  fd' = [fd EXCEPT !.state = IF r.thrown THEN "thrown"
                                        ELSE IF r.arrived THEN "returned" ELSE "polling",
                              !.res = IF r.thrown THEN 0 ELSE r.res,
                              !.elapsed = IF r.thrown THEN fd.elapsed ELSE fd.elapsed + 1]
    /\ UNCHANGED <<sv, dm, tb, uv, hc, restVars>>

\* no call of fetch_depth_frame
FetchIdle == [streams |-> <<>>, timeout |-> 0, elapsed |-> 0, state |-> "idle", res |-> 0]

\* the viewer's streams a call can meet
StreamSets ==
    UNION {[1 .. n -> [selected : BOOLEAN, depth : BOOLEAN]] : n \in 0 .. MaxStreams}

(***************************************************************************)
(* start_viewer, the selection of frame rate and resolution (571-606).     *)
(* sv is the call; lists are indexed from 1, the id 0 selects nothing:     *)
(*   res_values, fps_values   _sub->res_values, _sub->shared_fps_values    *)
(*   supported   the (res id, fps id) pairs for which                      *)
(*               is_selected_combination_supported() holds                 *)
(*   res, fps    the resolution and the frame rate asked for               *)
(*   res_id, fps_id     ui.selected_res_id, ui.selected_shared_fps_id      *)
(*   res_id1, fps_id1   the two ids after the look-up of what was asked    *)
(*   state       "idle" | "call" | "done"                                  *)
(* Resolutions and frame rates are numbers; Vga stands for 640x480.        *)
(***************************************************************************)
MaxRes == 2
MaxFps == 2
Vga == 1

\* for (i ...) if (values[i] == x) id = i;   from index i on
RECURSIVE SelectValue(_, _, _, _)
SelectValue(values, x, i, id) ==
    IF i > Len(values) THEN id
    ELSE SelectValue(values, x, i + 1, IF values[i] = x THEN i ELSE id)

\* the sweep of 589-594 without its break
RECURSIVE SweepAllFps(_, _, _, _, _)
SweepAllFps(supported, res_id, n, i, id) ==
    IF i > n THEN id
    ELSE SweepAllFps(supported, res_id, n, i + 1, i)

\* 589-594: for (i ...) { selected_shared_fps_id = i; if (supported) break; }
RECURSIVE SweepFps(_, _, _, _, _)
SweepFps(supported, res_id, n, i, id) ==
    IF i > n THEN id
    ELSE IF <<res_id, i>> \in supported THEN i
    ELSE SweepFps(supported, res_id, n, i + 1, i)

\* 571-606
SelectProfile(c) ==
    LET fps1 == SelectValue(c.fps_values, c.fps, 1, c.fps_id)
        res1 == SelectValue(c.res_values, c.res, 1, c.res_id)
        fps2 == IF <<res1, fps1>> \in c.supported THEN fps1
                ELSE SweepFps(c.supported, res1, Len(c.fps_values), 1, fps1)
        res2 == IF <<res1, fps2>> \in c.supported THEN res1
                ELSE SelectValue(c.res_values, Vga, 1, res1)
    IN  [c EXCEPT !.res_id1 = res1, !.fps_id1 = fps1, !.res_id = res2, !.fps_id = fps2,
                  !.state = "done"]

SelectCall ==
    /\ sv.state = "call"
    /\ sv' = SelectProfile(sv)
    /\ UNCHANGED <<fd, dm, tb, uv, hc, restVars>>

\* no negotiation
SelectIdle ==
    [res_values |-> <<>>, fps_values |-> <<>>, supported |-> {}, res |-> 0, fps |-> 0,
     res_id |-> 0, fps_id |-> 0, res_id1 |-> 0, fps_id1 |-> 0, state |-> "idle"]

\* lists of n distinct values
Distinct(n, values) == {q \in [1 .. n -> values] : \A i, j \in 1 .. n : q[i] = q[j] => i = j}

(***************************************************************************)
(* get_depth_metrics (693-803).  dm is the call:                           *)
(*   fill_rates, rmses   the two vectors the on_frame callback fills       *)
(*   i, count            the frame of the bundle, the bundles repeated     *)
(*   rms_std             the square of rms_std, as <<numerator, denominator>>*)
(*   all_rmses           every value on_frame has pushed to rmses          *)
(*   median_fill_rate, median_rms   the pair returned                      *)
(*   state               "idle" | "bundle" | "returned"                    *)
(* A bundle is BundleFrames frames (31 in the source); fill rates and RMS  *)
(* values are whole numbers of percent.                                    *)
(***************************************************************************)
BundleFrames == 2
MaxBundleRepeats == 10
\* the values on_frame computes for a frame
FillRates == {50, 80}
RmsValues == {2, 12, 20}

RECURSIVE SumSqr(_)
SumSqr(q) == IF q = <<>> THEN 0 ELSE q[1] * q[1] + SumSqr(Tail(q))

\* std::sort of a vector of numbers
RECURSIVE Insert(_, _)
Insert(x, q) ==
    IF q = <<>> THEN <<x>>
    ELSE IF x <= q[1] THEN <<x>> \o q
    ELSE <<q[1]>> \o Insert(x, Tail(q))
RECURSIVE Sorted(_)
Sorted(q) == IF q = <<>> THEN <<>> ELSE Insert(q[1], Sorted(Tail(q)))

\* 791-799: 0 for no value, else the element at size / 2 of the sorted values
MedianOf(q) == IF q = <<>> THEN 0 ELSE Sorted(q)[(Len(q) \div 2) + 1]

RepeatAlways(new, old) == TRUE

\* 786: new_rms_std < rms_std * 0.8f && new_rms_std > 10.f, on the squares;
\* with no RMS value new_rms_std is not a number and both tests fail
RepeatBundle(new, old) ==
    /\ new[2] # 0
    /\ 100 * new[1] * old[2] < 64 * old[1] * new[2]
    /\ new[1] > 100 * new[2]

\* 776-781 and the callback 708-759: one frame of the bundle
DmFrame ==
    /\ dm.state = "bundle"
    /\ dm.i < BundleFrames
    /\ \E fill \in FillRates, plane_fit \in BOOLEAN, rms \in RmsValues :
         dm' = [dm EXCEPT !.i = dm.i + 1,
                          !.fill_rates = Append(dm.fill_rates, fill),
                          !.rmses = IF plane_fit THEN Append(dm.rmses, rms) ELSE dm.rmses,
                          !.all_rmses = IF plane_fit THEN Append(dm.all_rmses, rms) ELSE dm.all_rmses]
    /\ UNCHANGED <<fd, sv, tb, uv, hc, restVars>>

\* 783-802: the end of a bundle; another one (770-772) or the medians
DmBundleEnd ==
    /\ dm.state = "bundle"
    /\ dm.i = BundleFrames
    /\ LET new == <<SumSqr(dm.rmses), Len(dm.rmses)>>
       IN  IF RepeatBundle(new, dm.rms_std) /\ dm.count < MaxBundleRepeats
           THEN dm' = [dm EXCEPT !.rms_std = new, !.rmses = <<>>, !.i = 0, !.count = dm.count + 1]
           ELSE dm' = [dm EXCEPT !.state = "returned",
                                 !.count = IF RepeatBundle(new, dm.rms_std) THEN dm.count + 1 ELSE dm.count,
                                 !.median_fill_rate = MedianOf(dm.fill_rates),
                                 !.median_rms = MedianOf(dm.rmses)]
    /\ UNCHANGED <<fd, sv, tb, uv, hc, restVars>>

\* get_depth_metrics at the first frame of its first bundle (762-772)
MetricsStart ==
    [fill_rates |-> <<>>, rmses |-> <<>>, all_rmses |-> <<>>, i |-> 0, count |-> 0,
     rms_std |-> <<1000000, 1>>, median_fill_rate |-> 0, median_rms |-> 0, state |-> "bundle"]

\* no call of get_depth_metrics
MetricsIdle == [MetricsStart EXCEPT !.state = "idle"]

(***************************************************************************)
(* calibrate_fl, the patch of the coefficients table (1702-1714).  A table *)
(* is [crc32, body]: the checksum of its header and the fields after the   *)
(* header, body[RightXX] and body[RightXY] being intrinsic_right.x.x and   *)
(* intrinsic_right.x.y.  Fields are whole numbers, ratio_to_apply is       *)
(* <<numerator, denominator>>.  tb is the step:                            *)
(*   _old_calib, _new_calib   the two tables of the manager                *)
(*   old0                     _old_calib at the start of the step          *)
(*   ratio                    ratio_to_apply                               *)
(*   state                    "idle" | "patch" | "patched"                 *)
(***************************************************************************)
BodyFields == 4
RightXX == 2
RightXY == 3
FieldValues == {0, 2, 4}
Ratios == {<<1, 2>>, <<1, 1>>, <<3, 2>>}

\* helpers::calc_crc32 over the fields of a body: a checksum that depends on
\* every field and on its position
RECURSIVE calc_crc32(_, _)
calc_crc32(q, h) ==
    IF q = <<>> THEN h ELSE calc_crc32(Tail(q), (h * 31 + q[1] + 1) % 65521)

\* field *= ratio_to_apply
Scaled(x, ratio) == (x * ratio[1]) \div ratio[2]

\* the patch with the checksum taken before the two fields are scaled
PatchTableStaleCrc(old, ratio) ==
    [crc32 |-> calc_crc32(old.body, 0),
     body |-> [old.body EXCEPT ![RightXX] = Scaled(old.body[RightXX], ratio),
                               ![RightXY] = Scaled(old.body[RightXY], ratio)]]

\* 1705-1713
PatchTable(old, ratio) ==
    LET body == [old.body EXCEPT ![RightXX] = Scaled(old.body[RightXX], ratio),
                                 ![RightXY] = Scaled(old.body[RightXY], ratio)]
    IN  [crc32 |-> calc_crc32(body, 0), body |-> body]

PatchCall ==
    /\ tb.state = "patch"
    /\ tb' = [tb EXCEPT !._new_calib = PatchTable(tb._old_calib, tb.ratio), !.state = "patched"]
    /\ UNCHANGED <<fd, sv, dm, uv, hc, restVars>>

EmptyTable == [crc32 |-> 0, body |-> <<>>]
\* no patch
PatchIdle ==
    [_old_calib |-> EmptyTable, _new_calib |-> EmptyTable, old0 |-> EmptyTable,
     ratio |-> <<1, 1>>, state |-> "idle"]

(***************************************************************************)
(* uvmapping_calib::calibrate, the fit and its verdict (3741-3797).  The   *)
(* four dots are given by their normalised colour coordinates (x, y:       *)
(* pixel_color_norm) and their detected pixels (_color_x, _color_y); the   *)
(* pixels lie on a line over the coordinates, so the quotients of the fit  *)
(* are whole numbers.  uv is the call:                                     *)
(*   fx, fy, ppx, ppy   the reference parameters, as passed and as left    *)
(*   prior              the value the caller passed in each of the four    *)
(*   d_x, d_y           the two determinants                               *)
(*   result             the value returned                                 *)
(*   state              "idle" | "call" | "returned"                       *)
(* The reprojection errors (3702-3739, 3781-3795) take no part in the      *)
(* verdict and are left out.                                               *)
(***************************************************************************)
MaxChange == 2
\* the coordinates of four dots: two columns, one column, two wider columns
DotCoordinates == {<<0, 1, 0, 1>>, <<1, 1, 1, 1>>, <<0, 2, 0, 2>>}
\* the scale and the offset of the line the detected pixels lie on
DotScales == {3, 4, 6}
DotOffsets == {4, 5}
\* _color_intrin
ColorIntrin == [fx |-> 4, fy |-> 4, ppx |-> 4, ppy |-> 4]

RECURSIVE Dot(_, _)
Dot(p, q) == IF p = <<>> THEN 0 ELSE p[1] * q[1] + Dot(Tail(p), Tail(q))
Ones == <<1, 1, 1, 1>>
Abs(x) == IF x < 0 THEN 0 - x ELSE x

\* 3765, 3773: 4 * x_2 - x * x
Determinant(xs) == 4 * Dot(xs, xs) - Dot(xs, Ones) * Dot(xs, Ones)

\* 3766-3771, 3774-3779: the scale and the offset of one axis, left as they
\* were passed when the determinant is not above 0.01
FitAxis(xs, cs, f, pp) ==
    LET x == Dot(xs, Ones)
        c == Dot(cs, Ones)
        x_2 == Dot(xs, xs)
        c_xc == Dot(cs, xs)
        d == Determinant(xs)
    IN  IF d > 0 THEN [f |-> (4 * c_xc - x * c) \div d, pp |-> (x_2 * c - x * c_xc) \div d]
        ELSE [f |-> f, pp |-> pp]

\* the test of 3797 with <= for <
CloseOrAtLimit(a, b, max_change) == Abs(a - b) <= max_change

\* 3797: fabs(a - b) < _max_change
Close(a, b, max_change) == Abs(a - b) < max_change

\* 3741-3797
UvCalibrate(u) ==
    LET ax == FitAxis(u.x, u._color_x, u.fx, u.ppx)
        ay == FitAxis(u.y, u._color_y, u.fy, u.ppy)
    IN  [u EXCEPT !.fx = ax.f, !.ppx = ax.pp, !.fy = ay.f, !.ppy = ay.pp,
                  !.d_x = Determinant(u.x), !.d_y = Determinant(u.y),
                  !.result = /\ Close(u._color_intrin.ppx, ax.pp, u._max_change)
                             /\ Close(u._color_intrin.ppy, ay.pp, u._max_change)
                             /\ Close(u._color_intrin.fx, ax.f, u._max_change)
                             /\ Close(u._color_intrin.fy, ay.f, u._max_change),
                  !.state = "returned"]

UvCall ==
    /\ uv.state = "call"
    /\ uv' = UvCalibrate(uv)
    /\ UNCHANGED <<fd, sv, dm, tb, hc, restVars>>

\* no call
UvIdle ==
    [x |-> Ones, y |-> Ones, _color_x |-> Ones, _color_y |-> Ones, _color_intrin |-> ColorIntrin,
     _max_change |-> 1, fx |-> 0, fy |-> 0, ppx |-> 0, ppy |-> 0, prior |-> 0,
     d_x |-> 0, d_y |-> 0,
     result |-> FALSE, state |-> "idle"]

(***************************************************************************)
(* calibrate(): frames, firmware calls                                     *)
(***************************************************************************)

\* the actions process_flow hands to calibrate()
CalibrateActions == {"ON_CHIP_CALIB", "ON_CHIP_FL_CALIB", "ON_CHIP_OB_CALIB", "TARE_CALIB",
                     "UVMAPPING"}

FlObActions == {"ON_CHIP_FL_CALIB", "ON_CHIP_OB_CALIB"}

\* depth frame geometry; frames of the model have identical rows
width == 5
height == 5
roi_w == width \div 5
roi_h == height \div 5
roi_size == roi_w * roi_h
roi_fl_size == roi_w * 5

\* frame counters the firmware stamps on frames
MaxFc == TableCap
FrameCounters == 0 .. MaxFc
\* non-zero pixels in one row of the region of interest
RowCounts == 0 .. roi_w

\* polls of a start-up wait before now - start_time must exceed start_timeout_ms
MaxWait == 2
\* frames averaged per tare step
average_step_count == 2

\* total_frames as the speed switch sets it: 60, 120, 256, 256, 120 of 256 slots
SpeedFrames(spd) ==
    CASE spd = 0 -> TableCap - 2
      [] spd = 1 -> TableCap - 1
      [] spd = 2 -> TableCap
      [] spd = 3 -> TableCap
      [] spd = 4 -> TableCap - 1
      [] OTHER   -> TableCap

\* fl_step_count 41 / 51 / 41 for speed_fl 0 / 1 / 2
FlSteps(sfl) == IF sfl = 1 THEN TableCap - 1 ELSE TableCap - 2
\* speed 1 / 3 / 4 for speed_fl 0 / 1 / 2
FlSpeed(sfl) == CASE sfl = 0 -> 1 [] sfl = 1 -> 3 [] OTHER -> 4
\* step_count of the tare scan
step_count == TableCap - 2

\* the count taken for a ten-thousandth without the division by data_size
FillFactorUnscaled(cnt, data_size) == (cnt * 10000) % 65536

\* static_cast<uint16_t>(counter / data_size * 10000 + 0.5)
FillFactorOf(cnt, data_size) == ((2 * cnt * 10000 + data_size) \div (2 * data_size)) % 65536

\* non-zero pixels counted in the sampled band of a frame: the five rows of the
\* focal-length band (fl) or the roi_h rows of the region of interest
BandCount(row, fl) == IF fl THEN row * 5 ELSE row * roi_h
BandSize(fl) == IF fl THEN roi_fl_size ELSE roi_size

\* values the device hands to a progress callback
FwProgress == {0, 100}

\* calls whose callback stores into _progress (996, 998, 1116, 1276, 1381);
\* the callbacks of 1087 and 1201 are empty
ReportsProgress(kind) == kind \in {"tare_init", "occ_init", "tare_commit", "ob_ha3", "occ_ha2"}

\* now - start_time > start_timeout_ms after n polls of the wait loop
MayTimeOut(n) == n >= 1
MustTimeOut(n) == n >= MaxWait

\* 878-881: the toggle swaps speed_fl 0 and 1
ToggledSpeedFl(sfl) == IF sfl = 0 THEN 1 ELSE IF sfl = 1 THEN 0 ELSE sfl

\* if (_progress < cap) _progress += step;
Bump(p, cap, step) == IF p < cap THEN p + step ELSE p

\* the locals of the calibration methods as they are declared
LocInit ==
    [occ_timeout_ms |-> 9000,
     frame_counter |-> 0, start_frame_counter |-> 0, prev_frame_counter |-> 0,
     total_frames |-> TableCap, cur_progress |-> 0,
     f_valid |-> 0,       \* non-zero pixels in a row of frame f inside the region of interest
     frame_num |-> 0,
     counter |-> 0,       \* calibrate(): valid pixels accumulated
     waited |-> 0,        \* fetches since start_time was taken
     gathered |-> 0,      \* calibrate_fl / calibrate_uv_mapping: counter
     null_iter |-> 0,     \* iterations that met an empty frame
     fw_progress |-> 0,   \* the last value the running device call has reported
     json |-> <<>>]       \* the document of 909-970 as <<key, text>> pairs, in order

LastCall == fw_calls[Len(fw_calls)]

(***************************************************************************)
(* calibrate(), one action per step between two blocking calls             *)
(***************************************************************************)

\* an exception leaves calibrate() from position at; its locals are gone
Thrown(at) == cpc' = "threw" /\ threw_at' = at /\ loc' = LocInit

\* what ss << n writes for an int n
Text(n) == ToString(n)

\* 935-946 and 951-960: the focal-length keys
FlKeys(ha, fls) ==
    <<<<"host assistance", Text(ha)>>, <<"fl step count", Text(fls)>>,
      <<"fy scan range", "fy_scan_range">>,
      <<"keep new value after sucessful scan", "keep_new_value_after_sucessful_scan">>,
      <<"fl data sampling", "fl_data_sampling">>, <<"adjust both sides", "adjust_both_sides">>,
      <<"fl scan location", "fl_scan_location">>, <<"fy scan direction", "fy_scan_direction">>,
      <<"white wall mode", "white_wall_mode">>>>

\* 914-918 and 962-966: the scan keys
ScanKeys ==
    <<<<"average step count", "average_step_count">>,
      <<"scan parameter", "intrinsic_scan ? 0 : 1">>, <<"step count", "step_count">>,
      <<"apply preset", "apply_preset ? 1 : 0">>, <<"accuracy", "accuracy">>>>

\* 909-970: the document calibrate() builds, as the <<key, text>> pairs it
\* writes to ss in order.  The text of a member the model carries is its
\* decimal text, the text of any other member is the expression written.
\* The statement of 924-931 starts with a string literal and writes nothing
\* to ss; the branch of 933 repeats the condition of 922 and is never taken.
CalibJson(act, ha, spd, fls) ==
    IF act = "ON_CHIP_CALIB"
    THEN <<<<"calib type", Text(0)>>, <<"host assistance", Text(ha)>>>> \o ScanKeys
         \o <<<<"scan only", Text(0)>>, <<"interactive scan", Text(0)>>>>
    ELSE IF act = "ON_CHIP_FL_CALIB"
    THEN <<>>
    ELSE IF act = "ON_CHIP_FL_CALIB"
    THEN <<<<"calib type", Text(1)>>>> \o FlKeys(ha, fls)
         \o <<<<"scan only", Text(IF ha # 0 THEN 1 ELSE 0)>>, <<"interactive scan", Text(0)>>>>
    ELSE <<<<"calib type", Text(2)>>>> \o FlKeys(ha, fls) \o <<<<"speed", Text(spd)>>>> \o ScanKeys
         \o <<<<"scan only", Text(IF ha # 0 THEN 1 ELSE 0)>>, <<"interactive scan", Text(0)>>,
               <<"depth", Text(0)>>>>

\* 872-907: toggle and the speed_fl table; 909-970 builds the json
C_Entry ==
    /\ cpc = "entry"
    /\ LET ob_fl == action \in FlObActions
           sfl == IF ob_fl /\ toggle THEN ToggledSpeedFl(speed_fl) ELSE speed_fl
       IN  /\ loc' = [loc EXCEPT !.occ_timeout_ms = IF ob_fl /\ toggle THEN 12000 ELSE 9000,
                                 !.json = CalibJson(action, host_assistance,
                                                    IF ob_fl THEN FlSpeed(sfl) ELSE speed,
                                                    IF ob_fl THEN FlSteps(sfl) ELSE fl_step_count)]
           /\ speed_fl' = sfl
           /\ toggle' = IF ob_fl THEN FALSE ELSE toggle
           /\ speed' = IF ob_fl THEN FlSpeed(sfl) ELSE speed
           /\ fl_step_count' = IF ob_fl THEN FlSteps(sfl) ELSE fl_step_count
    /\ cpc' = "fetch0"
    /\ UNCHANGED <<action, host_assistance, version3, fill_factor, threw_at, _progress,
                   fw_calls, fillVars, unitVars, sessionVars>>

\* 974-980: the first frame
C_Fetch0 ==
    /\ cpc = "fetch0"
    /\ \/ \E fc \in FrameCounters, row \in RowCounts :
            /\ loc' = [loc EXCEPT !.f_valid = row,
                                  !.frame_counter = IF version3 THEN fc ELSE 0]
            /\ _progress' = 0
            /\ cpc' = IF version3 THEN "v3wait" ELSE "fw_init"
            /\ UNCHANGED threw_at
       \/ /\ Thrown("fetch0")
          /\ UNCHANGED _progress
    /\ UNCHANGED <<paramVars, fill_factor, fw_calls, fillVars, unitVars, sessionVars>>

\* 981-990: while (frame_counter <= 2)
C_V3Wait ==
    /\ cpc = "v3wait"
    /\ IF loc.frame_counter <= 2
       THEN /\ _progress' = Bump(_progress, 7, 3)
            /\ \/ \E fc \in FrameCounters, row \in RowCounts :
                    /\ loc' = [loc EXCEPT !.f_valid = row, !.frame_counter = fc]
                    /\ UNCHANGED <<cpc, threw_at>>
               \/ Thrown("v3wait")
       ELSE /\ _progress' = 10
            /\ cpc' = "fw_init"
            /\ UNCHANGED <<loc, threw_at>>
    /\ UNCHANGED <<paramVars, fill_factor, fw_calls, fillVars, unitVars, sessionVars>>

\* calibrate() without lines 995-998: no action has a first call
NoInitialCall(act) == "none"

\* 995-998: which firmware entry point the first call uses
InitialCall(act) ==
    CASE act = "TARE_CALIB" -> "tare_init"
      [] act \in {"ON_CHIP_CALIB", "ON_CHIP_FL_CALIB", "ON_CHIP_OB_CALIB"} -> "occ_init"
      [] OTHER -> "none"

\* 1001: if (host_assistance), what follows the first call
AfterInitialCall(ha) == IF ha # 0 THEN "ha_wait" ELSE "returned"

\* 1003-1020: the declarations at the head of the host-assisted block
HostAssistedLocals(l, pos) ==
    IF pos = "returned" THEN LocInit
    ELSE [l EXCEPT !.start_frame_counter = l.frame_counter, !.counter = 0, !.waited = 0,
                   !.fw_progress = 0]

C_FwInit ==
    /\ cpc = "fw_init"
    /\ IF InitialCall(action) = "none"
       THEN /\ cpc' = AfterInitialCall(host_assistance)
            /\ loc' = HostAssistedLocals(loc, AfterInitialCall(host_assistance))
            /\ UNCHANGED fw_calls
       ELSE /\ fw_calls' = Append(fw_calls, InitialCall(action))
            /\ cpc' = "in_fw"
            /\ loc' = [loc EXCEPT !.fw_progress = 0]
    /\ UNCHANGED <<paramVars, fill_factor, threw_at, _progress, fillVars, unitVars, sessionVars>>

\* the progress callback of a running firmware call; the device counts upward
C_FwCallback ==
    /\ cpc = "in_fw"
    /\ \E p \in FwProgress :
         /\ p >= loc.fw_progress
         /\ loc' = [loc EXCEPT !.fw_progress = p]
         /\ _progress' = IF ReportsProgress(LastCall) THEN p ELSE _progress
    /\ UNCHANGED <<paramVars, cpc, fill_factor, threw_at, fw_calls, fillVars, unitVars, sessionVars>>

\* the firmware call throws (time-out, hardware error)
C_FwThrow ==
    /\ cpc = "in_fw"
    /\ Thrown("fw")
    /\ fill_factor' = ZeroTable
    /\ UNCHANGED <<paramVars, _progress, fw_calls, fillVars, unitVars, sessionVars>>

\* the firmware call returns: the statement behind each call site
C_FwReturn ==
    /\ cpc = "in_fw"
    /\ CASE LastCall \in {"tare_init", "occ_init"} ->
              /\ cpc' = AfterInitialCall(host_assistance)
              /\ loc' = HostAssistedLocals(loc, AfterInitialCall(host_assistance))
              /\ UNCHANGED <<_progress, fill_factor>>
         [] LastCall = "tare_depth" ->
              /\ cpc' = "tare_fetch"
              /\ loc' = [loc EXCEPT !.fw_progress = 0]
              /\ UNCHANGED <<_progress, fill_factor>>
         [] LastCall = "ob_ha2" ->
              /\ _progress' = 45
              /\ loc' = [loc EXCEPT !.waited = 0, !.fw_progress = 0]
              /\ cpc' = "ob_wait2"
              /\ UNCHANGED fill_factor
         [] OTHER ->
              /\ _progress' = 100
              /\ cpc' = "returned"
              /\ loc' = LocInit
              /\ fill_factor' = ZeroTable
    /\ UNCHANGED <<paramVars, threw_at, fw_calls, fillVars, unitVars, sessionVars>>

\* total_frames of the sampling loop that follows the start-up wait
SampleFrames(act, spd, fsc) ==
    IF act = "TARE_CALIB" THEN step_count
    ELSE IF act \in {"ON_CHIP_OB_CALIB", "ON_CHIP_CALIB"} THEN SpeedFrames(spd)
    ELSE fsc

\* the sampling loop each branch of if (host_assistance) enters
SampleLoop(act) ==
    IF act = "TARE_CALIB" THEN "tare_sample"
    ELSE IF act = "ON_CHIP_OB_CALIB" THEN "ob_sample1"
    ELSE "sample"

\* 1027-1053, 1122-1158, 1281-1336: while (frame_counter >= start_frame_counter)
C_HaWait ==
    /\ cpc = "ha_wait"
    /\ IF loc.frame_counter >= loc.start_frame_counter
       THEN \/ /\ MayTimeOut(loc.waited)
               /\ Thrown("ha_wait")
               /\ UNCHANGED _progress
            \/ /\ ~MustTimeOut(loc.waited)
               /\ _progress' = Bump(_progress, 18, 2)
               /\ \/ \E fc \in FrameCounters, row \in RowCounts :
                       /\ loc' = [loc EXCEPT !.frame_counter = fc, !.f_valid = row,
                                             !.waited = loc.waited + 1]
                       /\ UNCHANGED <<cpc, threw_at>>
                  \/ Thrown("ha_fetch")
       ELSE /\ _progress' = 20
            /\ loc' = [loc EXCEPT
                         !.total_frames = SampleFrames(action, speed, fl_step_count),
                         !.prev_frame_counter = SampleFrames(action, speed, fl_step_count),
                         !.cur_progress = 20,
                         !.counter = 0,
                         !.frame_num = 0,
                         !.waited = 0]
            /\ cpc' = SampleLoop(action)
            /\ UNCHANGED threw_at
    /\ fill_factor' = ZeroTable
    /\ UNCHANGED <<paramVars, fw_calls, fillVars, unitVars, sessionVars>>

\* counters the firmware stamps while it steps through a scan: it counts upward
SampleCounters(fc) == {c \in FrameCounters : c >= fc}

\* progress points a sampling loop spreads over total_frames
SampleSpan(pos) == IF pos = "sample" THEN 60 ELSE 25

\* the band a sampling loop counts pixels in
SamplesFlBand(pos, act) == pos = "ob_sample2" \/ (pos = "sample" /\ act = "ON_CHIP_FL_CALIB")

\* 1159-1189, 1232-1262, 1337-1367: one iteration of while (frame_counter < total_frames)
C_Sample ==
    /\ cpc \in {"sample", "ob_sample1", "ob_sample2"}
    /\ loc.frame_counter < loc.total_frames
    /\ LET fl == SamplesFlBand(cpc, action)
           sampled == loc.frame_counter # loc.prev_frame_counter
           ff == IF sampled
                 THEN [fill_factor EXCEPT ![loc.frame_counter] =
                          FillFactorOf(BandCount(loc.f_valid, fl), BandSize(fl))]
                 ELSE fill_factor
           pr == IF sampled
                 THEN loc.cur_progress
                        + ((loc.frame_counter * SampleSpan(cpc)) \div loc.total_frames)
                 ELSE _progress
       IN  /\ _progress' = pr
           /\ \/ \E fc \in SampleCounters(loc.frame_counter), row \in RowCounts :
                   /\ loc' = [loc EXCEPT !.prev_frame_counter = loc.frame_counter,
                                         !.frame_counter = fc,
                                         !.f_valid = row]
                   /\ fill_factor' = ff
                   /\ UNCHANGED <<cpc, threw_at>>
              \/ /\ Thrown("sample_fetch")
                 /\ fill_factor' = ZeroTable
    /\ UNCHANGED <<paramVars, fw_calls, fillVars, unitVars, sessionVars>>

\* every table handed over by the call of the single-phase scan
OneTableCall(pos) == "occ_ha2"

\* the firmware call that takes the table of a sampling loop
TableCall(pos) ==
    CASE pos = "ob_sample1" -> "ob_ha2"
      [] pos = "ob_sample2" -> "ob_ha3"
      [] OTHER -> "occ_ha2"

\* 1191-1201, 1264-1276, 1369-1381: fill_missing_data and the call with the table
C_Fill ==
    /\ cpc \in {"sample", "ob_sample1", "ob_sample2"}
    /\ loc.frame_counter >= loc.total_frames
    /\ \E oob \in OobOutcomes :
         LET r == fill_missing_data(fill_factor, loc.total_frames, oob)
         IN  CASE r.outcome = "returned" ->
                    /\ fill_factor' = r.data
                    /\ fw_calls' = Append(fw_calls, TableCall(cpc))
                    /\ _progress' = IF cpc = "ob_sample1" THEN _progress ELSE 80
                    /\ cpc' = "in_fw"
                    /\ loc' = [loc EXCEPT !.fw_progress = 0]
                    /\ UNCHANGED threw_at
               [] r.outcome = "thrown" ->
                    /\ Thrown("fill")
                    /\ UNCHANGED <<fill_factor, fw_calls, _progress>>
               [] OTHER ->
                    /\ cpc' = "fault"
                    /\ loc' = LocInit
                    /\ UNCHANGED <<fill_factor, fw_calls, _progress, threw_at>>
    /\ UNCHANGED <<paramVars, fillVars, unitVars, sessionVars>>

\* 1205-1231: while (frame_counter >= total_frames) before the focal-length scan
C_ObWait2 ==
    /\ cpc = "ob_wait2"
    /\ IF loc.frame_counter >= loc.total_frames
       THEN \/ /\ MayTimeOut(loc.waited)
               /\ Thrown("ob_wait2")
               /\ fill_factor' = ZeroTable
               /\ UNCHANGED _progress
            \/ /\ ~MustTimeOut(loc.waited)
               /\ _progress' = Bump(_progress, 53, 2)
               /\ \/ \E fc \in FrameCounters, row \in RowCounts :
                       /\ loc' = [loc EXCEPT !.frame_counter = fc, !.f_valid = row,
                                             !.waited = loc.waited + 1]
                       /\ UNCHANGED <<cpc, threw_at, fill_factor>>
                  \/ /\ Thrown("ob_wait2_fetch")
                     /\ fill_factor' = ZeroTable
       ELSE /\ _progress' = 55
            /\ loc' = [loc EXCEPT !.total_frames = fl_step_count,
                                  !.prev_frame_counter = fl_step_count,
                                  !.cur_progress = 55,
                                  !.waited = 0]
            /\ fill_factor' = ZeroTable
            /\ cpc' = "ob_sample2"
            /\ UNCHANGED threw_at
    /\ UNCHANGED <<paramVars, fw_calls, fillVars, unitVars, sessionVars>>

\* a frame count that starts again once average_step_count frames were taken
FrameNumWraps(n) == IF n + 1 < average_step_count THEN n + 1 ELSE 0

\* ++frame_num; only frame_num < average_step_count and frame_num + 1 ==
\* average_step_count are ever asked, so the count stops at average_step_count
NextFrameNum(n) == IF n < average_step_count THEN n + 1 ELSE n

\* 1055-1089: the head of one iteration of the tare loop
C_TareSample ==
    /\ cpc = "tare_sample"
    /\ loc.frame_counter < loc.total_frames
    /\ IF loc.frame_num < average_step_count
       THEN LET cnt == loc.counter + BandCount(loc.f_valid, FALSE)
            IN  /\ loc' = [loc EXCEPT !.counter = cnt]
                /\ IF cnt # 0 /\ loc.frame_num + 1 = average_step_count
                   THEN /\ fw_calls' = Append(fw_calls, "tare_depth")
                        /\ cpc' = "in_fw"
                   ELSE /\ cpc' = "tare_fetch"
                        /\ UNCHANGED fw_calls
       ELSE /\ cpc' = "tare_fetch"
            /\ UNCHANGED <<loc, fw_calls>>
    /\ UNCHANGED <<paramVars, fill_factor, threw_at, _progress, fillVars, unitVars, sessionVars>>

\* 1091-1105: the tail of the iteration
C_TareFetch ==
    /\ cpc = "tare_fetch"
    /\ \/ \E fc \in SampleCounters(loc.frame_counter), row \in RowCounts :
            /\ IF fc # loc.frame_counter
               THEN /\ _progress' = Bump(_progress, 80, 1)
                    /\ loc' = [loc EXCEPT !.prev_frame_counter = loc.frame_counter,
                                          !.frame_counter = fc, !.f_valid = row,
                                          !.counter = 0, !.frame_num = 0]
               ELSE /\ loc' = [loc EXCEPT !.prev_frame_counter = loc.frame_counter,
                                          !.f_valid = row,
                                          !.frame_num = NextFrameNum(loc.frame_num)]
                    /\ UNCHANGED _progress
            /\ cpc' = "tare_sample"
            /\ UNCHANGED threw_at
       \/ /\ Thrown("tare_fetch")
          /\ UNCHANGED _progress
    /\ UNCHANGED <<paramVars, fill_factor, fw_calls, fillVars, unitVars, sessionVars>>

\* 1110-1116: the committing call, depth -1
C_TareCommit ==
    /\ cpc = "tare_sample"
    /\ loc.frame_counter >= loc.total_frames
    /\ _progress' = 80
    /\ fw_calls' = Append(fw_calls, "tare_commit")
    /\ cpc' = "in_fw"
    /\ loc' = [loc EXCEPT !.fw_progress = 0]
    /\ UNCHANGED <<paramVars, fill_factor, threw_at, fillVars, unitVars, sessionVars>>

(***************************************************************************)
(* The workspace: viewer flags, the sub-device, two sensor options and the *)
(* copies on_chip_calib_manager keeps of them.  One record, w:             *)
(*   is_3d_view, synchronization_enable            viewer_model            *)
(*   streaming, post_processing_enabled, ui        subdevice_model (_sub)  *)
(*   emitter, thermal                              RS2_OPTION_EMITTER_ENABLED, *)
(*                                                 RS2_OPTION_THERMAL_COMPENSATION *)
(*   laser_status_prev, thermal_loop_prev, _in_3d_view, _was_streaming,    *)
(*   _synchronized, _post_processing, _restored, _ui     the manager       *)
(*   overridden        start_viewer has overridden the options this session *)
(* ui is "user" (the selection the user made) or "calib" (what start_viewer *)
(* selects); _ui is "null" or the copied selection.                        *)
(***************************************************************************)

\* 67-100: stop_viewer(invoke)
stop_viewer(ws) == [ws EXCEPT !.streaming = FALSE]

\* 396-669: start_viewer(w, h, fps, invoke); the value returned is frame_arrived
start_viewer(ws) ==
    [ws EXCEPT !.laser_status_prev = ws.emitter,
               !.emitter = 0,
               !.thermal_loop_prev = ws.thermal,
               !.thermal = 0,
               !.ui = "calib",
               !.streaming = TRUE,
               !.overridden = TRUE]

\* 676-691: try_start_viewer; a1, a2: frames arrived after the first, the second start
try_start_viewer(ws, a1, a2) ==
    LET w1 == start_viewer(ws)
        w2 == IF a1 THEN w1 ELSE start_viewer(w1)
        started == a1 \/ a2
    IN  [ws |-> IF started THEN w2 ELSE stop_viewer(w2), thrown |-> ~started]

\* if (_sub.get() && _ui.get()) { _sub->ui = *_ui; _ui.reset(); }
restore_ui(ws) == IF ws._ui # "null" THEN [ws EXCEPT !.ui = ws._ui, !._ui = "null"] ELSE ws

\* 2104-2135 without the test of _restored
restore_workspace_body(ws) ==
    LET a == [ws EXCEPT !.is_3d_view = ws._in_3d_view,
                        !.synchronization_enable = ws._synchronized]
        b == restore_ui(stop_viewer(a))
        c == [b EXCEPT !.post_processing_enabled = b._post_processing]
        d == IF c._was_streaming THEN start_viewer(c) ELSE c
    IN  [d EXCEPT !._restored = TRUE]

\* 2104-2135: restore_workspace(invoke)
restore_workspace(ws) == IF ws._restored THEN ws ELSE restore_workspace_body(ws)

\* what a session is measured against: the workspace when start() is called
Snapshot(ws) ==
    [ui |-> ws.ui, post_processing_enabled |-> ws.post_processing_enabled,
     synchronization_enable |-> ws.synchronization_enable, is_3d_view |-> ws.is_3d_view,
     emitter |-> ws.emitter, thermal |-> ws.thermal, streaming |-> ws.streaming]

\* a write-back more, counted up to "more than one"
OneMore(n) == IF n < 2 THEN n + 1 ELSE n

\* the calibration methods process_flow selects between (2028-2039)
ActionEntry(act) ==
    CASE act = "TARE_GROUND_TRUTH" -> "gt_gather"
      [] act = "FL_CALIB" -> "fl_gather"
      [] act = "UVMAPPING_CALIB" -> "uv_gather"
      [] OTHER -> "entry"

(***************************************************************************)
(* try_start_viewer (676-691) with the wait of start_viewer (649-669),     *)
(* step by step.  hc is the call:                                          *)
(*   ws, ws0      the workspace, and as it was at the call                 *)
(*   starts       calls of start_viewer so far                             *)
(*   count        polls of the running wait loop                           *)
(*   frame_arrived  the local of start_viewer                              *)
(*   seen         frame_arrived as each call of start_viewer returned it   *)
(*   pos          "call" | "wait" | "returned" | "thrown"                  *)
(* The wait polls StartPolls times (200 in the source).                    *)
(***************************************************************************)
StartPolls == 2

\* try_start_viewer with a second attempt whatever the first returned
RetryAlways(started) == TRUE

\* 679: if (!started)
RetryStart(started) == ~started

\* 396-648: start_viewer up to its wait loop
TsStartViewer ==
    /\ hc.unit = "try_start_viewer" /\ hc.pos = "call"
    /\ hc' = [hc EXCEPT !.ws = start_viewer(hc.ws), !.starts = hc.starts + 1,
                        !.count = 0, !.frame_arrived = FALSE, !.pos = "wait"]
    /\ UNCHANGED notHc

\* 651-663: one round of while (!frame_arrived && count++ < 200)
TsPoll ==
    /\ hc.unit = "try_start_viewer" /\ hc.pos = "wait"
    /\ ~hc.frame_arrived /\ hc.count < StartPolls
    /\ \E a \in BOOLEAN : hc' = [hc EXCEPT !.count = hc.count + 1, !.frame_arrived = a]
    /\ UNCHANGED notHc

\* 668 and 678-690: start_viewer returns frame_arrived to try_start_viewer
TsReturned ==
    /\ hc.unit = "try_start_viewer" /\ hc.pos = "wait"
    /\ hc.frame_arrived \/ hc.count >= StartPolls
    /\ LET started == hc.frame_arrived
           seen == Append(hc.seen, started)
       IN  IF hc.starts = 1 /\ RetryStart(started)
           THEN hc' = [hc EXCEPT !.seen = seen, !.pos = "call"]
           ELSE IF ~started
           THEN hc' = [hc EXCEPT !.seen = seen, !.ws = stop_viewer(hc.ws), !.pos = "thrown"]
           ELSE hc' = [hc EXCEPT !.seen = seen, !.pos = "returned"]
    /\ UNCHANGED notHc

(***************************************************************************)
(* calibrate(), the health scores of ON_CHIP_OB_CALIB (1386-1399).  hc is  *)
(* the step: h_both is static_cast<int>(_health); _health_1 and _health_2  *)
(* are kept in thousandths, so h_1 / 1000.0f is h_1.                       *)
(***************************************************************************)

\* a & b for b >= 0, bit by bit
RECURSIVE BitAndNat(_, _)
BitAndNat(a, b) ==
    IF a = 0 \/ b = 0 THEN 0
    ELSE 2 * BitAndNat(a \div 2, b \div 2) + (IF a % 2 = 1 /\ b % 2 = 1 THEN 1 ELSE 0)

\* a & mask for an int a in two's complement and a mask below 2^30
BitAnd(a, mask) == BitAndNat(a % 1073741824, mask)

\* the test of line 1397 on the bit of line 1394
SignBit1(sign) == BitAnd(sign, 1) # 0

\* 1397: if (sign & 2)
SignBit2(sign) == BitAnd(sign, 2) # 0

\* 1388-1398
DecodeHealth(h_both) ==
    LET h_1 == BitAnd(h_both, 4095)                    \* 0x00000FFF
        h_2 == BitAnd(h_both, 16773120) \div 4096      \* 0x00FFF000 >> 12
        sign == BitAnd(h_both, 251658240) \div 16777216 \* 0x0F000000 >> 24
    IN  [_health_1 |-> IF BitAnd(sign, 1) # 0 THEN 0 - h_1 ELSE h_1,
         _health_2 |-> IF SignBit2(sign) THEN 0 - h_2 ELSE h_2]

HealthDecode ==
    /\ hc.unit = "health" /\ hc.pos = "call"
    /\ LET r == DecodeHealth(hc.h_both)
       IN  hc' = [hc EXCEPT !._health_1 = r._health_1, !._health_2 = r._health_2,
                            !.pos = "done"]
    /\ UNCHANGED notHc

\* return codes: each 12-bit field empty, one, a pattern and full, every
\* value of bits 24..27, bits 28 and 29 clear or set, and the negative codes
\* with every bit above a field set
HealthFields == {0, 1, 2730, 4095}
HealthCodes ==
    {h1 + 4096 * h2 + 16777216 * sg + 268435456 * hi :
        h1 \in HealthFields, h2 \in HealthFields, sg \in 0 .. 15, hi \in {0, 3}}
        \cup {0 - n : n \in {1, 4096, 4097, 16777216, 33554432, 33554433}}

(***************************************************************************)
(* start_viewer, the streams it enables (412-569, 608-629).  hc is the     *)
(* call: stream_enabled and color_enabled are the uids with                *)
(* _sub->stream_enabled[uid] and _sub_color->stream_enabled[uid] true;     *)
(* _uid, _uid2, _uid_color are the uids the look-up of the formats (412-   *)
(* 558) ends with; two_streams is run_fl_calib || action ==                *)
(* UVMAPPING_CALIB.                                                        *)
(***************************************************************************)
StreamUids == 0 .. 2
ColorUids == 0 .. 1

\* 560-564 and 613: the enabled streams of the two sensors after the call
EnableStreams(c) ==
    [c EXCEPT !.stream_enabled = IF c.two_streams THEN {c._uid, c._uid2} ELSE {c._uid},
              !.color_enabled = IF c.action = "UVMAPPING_CALIB"
                                THEN c.color_enabled \cup {c._uid_color}
                                ELSE c.color_enabled,
              !.pos = "done"]

SelectStreams ==
    /\ hc.unit = "streams" /\ hc.pos = "call"
    /\ hc' = EnableStreams(hc)
    /\ UNCHANGED notHc

(***************************************************************************)
(* calibrate_fl (1408-1458) and calibrate_uv_mapping (1460-1511)           *)
(***************************************************************************)
frames_required == 25
\* float step = 50.f / frames_required
GatherStep == 50 \div frames_required
\* iterations of a gathering loop in which wait_for_frame hands back an empty frame
MaxNullIter == 26

\* process_manager::fail
Fail == _failed' = TRUE /\ _progress' = 0

\* one iteration of while (counter < frames_required)
A_Gather ==
    /\ cpc \in {"fl_gather", "uv_gather"}
    /\ loc.gathered < frames_required
    /\ \/ \* every queue hands back a frame
          /\ loc' = [loc EXCEPT !.gathered = loc.gathered + 1]
          /\ _progress' = _progress + GatherStep
          /\ UNCHANGED <<cpc, _failed>>
       \/ \* a frame is empty: only calibrate_uv_mapping moves, by line 1487
          /\ cpc = "uv_gather"
          /\ loc.null_iter < MaxNullIter
          /\ loc' = [loc EXCEPT !.null_iter = loc.null_iter + 1]
          /\ _progress' = _progress + GatherStep
          /\ UNCHANGED <<cpc, _failed>>
       \/ \* wait_for_frame throws; the method's handler calls fail
          /\ Fail
          /\ cpc' = "returned"
          /\ loc' = LocInit
    /\ UNCHANGED <<paramVars, fill_factor, threw_at, fw_calls, fillVars, unitVars, _done, _started,
                   wpc, w, uiVars, histVars>>

\* 1436-1443, 1490-1493: the device routine is called with the gathered frames
A_GatherDone ==
    /\ cpc \in {"fl_gather", "uv_gather"}
    /\ loc.gathered >= frames_required
    /\ fw_calls' = Append(fw_calls, IF cpc = "fl_gather" THEN "fl_calib" ELSE "uv_calib")
    /\ cpc' = "method_fw"
    /\ loc' = LocInit
    /\ UNCHANGED <<paramVars, fill_factor, threw_at, _progress, fillVars, unitVars, sessionVars>>

\* [&](const float progress) {_progress = progress; }
A_MethodCallback ==
    /\ cpc = "method_fw"
    /\ \E p \in FwProgress :
         /\ p >= loc.fw_progress
         /\ loc' = [loc EXCEPT !.fw_progress = p]
         /\ _progress' = p
    /\ UNCHANGED <<paramVars, cpc, fill_factor, threw_at, fw_calls, fillVars, unitVars, sessionVars>>

\* the routine returns; tbl: _new_calib.size() != 0; or it throws
A_MethodReturn ==
    /\ cpc = "method_fw"
    /\ \/ \E tbl \in BOOLEAN :
            IF LastCall = "uv_calib" /\ ~tbl
            THEN Fail
            ELSE UNCHANGED <<_failed, _progress>>
       \/ Fail
    /\ cpc' = "returned"
    /\ loc' = LocInit
    /\ UNCHANGED <<paramVars, fill_factor, threw_at, fw_calls, fillVars, unitVars, _done,
                   _started, wpc, w, uiVars, histVars>>

(***************************************************************************)
(* process_flow (1953-2102) on the worker thread                           *)
(***************************************************************************)
NoThrow(ws) == [ws |-> ws, thrown |-> FALSE]

\* the locals of the calibration methods, dead between two calls
LocalsReset == loc' = LocInit /\ fill_factor' = ZeroTable /\ threw_at' = "none"

\* 1955-1996: save and override the workspace, metrics before
W_Setup ==
    /\ wpc = "begin"
    /\ \E a1 \in BOOLEAN, a2 \in BOOLEAN, m \in BOOLEAN :
         LET ws1 == IF action \in {"FL_CALIB", "UVMAPPING_CALIB"} THEN stop_viewer(w) ELSE w
             ws2 == [ws1 EXCEPT !._in_3d_view = ws1.is_3d_view,
                                !.is_3d_view = (action # "TARE_GROUND_TRUTH"),
                                !._was_streaming = ws1.streaming,
                                !._synchronized = ws1.synchronization_enable,
                                !._post_processing = ws1.post_processing_enabled,
                                !.post_processing_enabled = FALSE,
                                !.synchronization_enable = FALSE,
                                !._restored = FALSE]
             metrics == action \notin {"TARE_GROUND_TRUTH", "UVMAPPING_CALIB"}
             t == IF metrics /\ ~ws2._was_streaming
                  THEN try_start_viewer(ws2, a1, a2) ELSE NoThrow(ws2)
         IN  /\ w' = t.ws
             /\ wpc' = IF t.thrown \/ (metrics /\ ~m) THEN "escaped" ELSE "setup2"
    /\ UNCHANGED <<paramVars, calibVars, _progress, fw_calls, fillVars, unitVars, pmVars, uiVars,
                   histVars>>

\* 1998-2026: copy the ui selection, start the streams the calibration runs on
W_Setup2 ==
    /\ wpc = "setup2"
    /\ \E a1 \in BOOLEAN, a2 \in BOOLEAN :
         LET ws1 == stop_viewer(w)
             ws2 == [ws1 EXCEPT !._ui = ws1.ui]
             ws3 == IF action \in {"FL_CALIB", "UVMAPPING_CALIB"}
                    THEN [ws2 EXCEPT !.is_3d_view = FALSE] ELSE ws2
             t == try_start_viewer(ws3, a1, a2)
         IN  /\ w' = t.ws
             /\ wpc' = IF t.thrown THEN "escaped" ELSE "action"
             /\ cpc' = IF t.thrown THEN "idle" ELSE ActionEntry(action)
    /\ LocalsReset
    /\ UNCHANGED <<paramVars, _progress, fw_calls, fillVars, unitVars, pmVars, uiVars, histVars>>

\* 2041-2058: the handler around the calibration method
W_Catch ==
    /\ wpc = "action"
    /\ cpc = "threw"
    /\ LET ws1 == restore_ui(stop_viewer(w))
       IN  w' = IF ws1._was_streaming THEN start_viewer(ws1) ELSE ws1
    /\ wpc' = "escaped"
    /\ cpc' = "idle"
    /\ LocalsReset
    /\ UNCHANGED <<paramVars, _progress, fw_calls, fillVars, unitVars, pmVars, uiVars, histVars>>

\* 2061-2100: the method returned
W_Finish ==
    /\ wpc = "action"
    /\ cpc = "returned"
    /\ \E a1 \in BOOLEAN, a2 \in BOOLEAN, m \in BOOLEAN :
         LET ws1 == IF action # "UVMAPPING_CALIB" THEN restore_ui(stop_viewer(w)) ELSE w
             after == action \notin {"TARE_GROUND_TRUTH", "UVMAPPING_CALIB"}
             ws2 == IF after /\ action = "FL_CALIB"
                    THEN [ws1 EXCEPT !.is_3d_view = TRUE] ELSE ws1
             t == IF after THEN try_start_viewer(ws2, a1, a2) ELSE NoThrow(ws2)
             escapes == t.thrown \/ (after /\ ~m)
         IN  /\ w' = t.ws
             /\ wpc' = IF escapes THEN "escaped" ELSE "set_done"
             /\ _progress' = IF escapes THEN _progress ELSE 100
    /\ cpc' = "idle"
    /\ LocalsReset
    /\ UNCHANGED <<paramVars, fw_calls, fillVars, unitVars, pmVars, uiVars, histVars>>

\* 2101: _done = true
W_Done ==
    /\ wpc = "set_done"
    /\ _done' = TRUE
    /\ wpc' = "idle"
    /\ UNCHANGED <<paramVars, calibVars, _progress, fw_calls, fillVars, unitVars, _failed, _started,
                   w, uiVars, histVars>>

\* process_manager::start: the thread's handler turns an exception into fail()
W_Escaped ==
    /\ wpc = "escaped"
    /\ Fail
    /\ wpc' = "idle"
    /\ UNCHANGED <<paramVars, calibVars, fw_calls, fillVars, unitVars, _done, _started, w, uiVars,
                   histVars>>

(***************************************************************************)
(* autocalib_notification_model: draw_content and dismiss on the control   *)
(* thread.  Calibrate, Health-Check, Apply and dismiss are taken once the   *)
(* worker of the session before has left process_flow; Retry is taken      *)
(* whenever the FAILED screen shows it.  What two threads inside           *)
(* process_flow do to the manager is a data race and is not followed.      *)
(***************************************************************************)

\* process_manager::reset and process_manager::start, with the session's history
StartSession(ws, who, n) ==
    /\ _progress' = 0 /\ _done' = FALSE /\ _failed' = FALSE
    /\ _started' = TRUE
    /\ wpc' = IF wpc = "idle" THEN "begin" ELSE "race"
    /\ w' = [ws EXCEPT !.overridden = FALSE]
    /\ s0' = Snapshot(ws)
    /\ emitter_writes' = 0 /\ thermal_writes' = 0
    /\ last_start' = who
    /\ attempts' = n
    /\ fw_calls' = <<>>
    /\ update_state' = "CALIB_IN_PROCESS"

\* the action each input screen starts (2325, 2637, 2823; 2729-2739 keeps it)
ScreenAction(state, act) ==
    CASE state = "TARE_INPUT" -> "TARE_CALIB"
      [] state = "UVMAPPING_INPUT" -> "UVMAPPING"
      [] state = "FL_INPUT" -> "FL_CALIB"
      [] OTHER -> act

\* 2813-2819: the FL screen saves the two options before it starts
SaveOptions(ws) == [ws EXCEPT !.laser_status_prev = ws.emitter,
                              !.thermal_loop_prev = ws.thermal]

\* 2320-2333, 2632-2645, 2729-2739, 2813-2831: the Calibrate button of an input screen
UI_Calibrate ==
    /\ ~dismissed /\ wpc = "idle"
    /\ update_state \in {"SELF_INPUT", "TARE_INPUT", "UVMAPPING_INPUT", "FL_INPUT"}
    /\ LET ws == IF update_state = "FL_INPUT" THEN SaveOptions(w) ELSE w
       IN  StartSession(restore_workspace(ws), "user", 1)
    /\ retry_times' = 0
    /\ action' = ScreenAction(update_state, action)
    /\ UNCHANGED <<host_assistance, version3, toggle, speed_fl, speed, fl_step_count,
                   calibVars, fillVars, unitVars, dismissed>>

\* 3447-3466: the Health-Check button of the initial prompt
UI_HealthCheck ==
    /\ ~dismissed /\ wpc = "idle"
    /\ update_state = "INITIAL_PROMPT"
    /\ ~_started
    /\ StartSession(w, "user", 1)
    /\ UNCHANGED <<paramVars, calibVars, fillVars, unitVars, dismissed, retry_times>>

\* 3491-3509: a draw while the process runs
UI_Observe ==
    /\ ~dismissed
    /\ update_state = "CALIB_IN_PROCESS"
    /\ _done \/ _failed
    /\ update_state' = IF _failed THEN "FAILED" ELSE "CALIB_COMPLETE"
    /\ UNCHANGED <<paramVars, calibVars, fillVars, unitVars, _progress, fw_calls, pmVars, wpc, w,
                   dismissed, retry_times, histVars>>

\* the test of line 2841 with <= for <
RetryOnceMore(n) == n <= 3

\* 2841: if (get_manager().retry_times < 3)
RetryAllowed(n) == n < 3

\* 2838-2853: a draw of the FAILED screen of an OCC FL / OCC Extended session
UI_AutoRetry ==
    /\ ~dismissed
    /\ update_state = "FAILED"
    /\ action \in FlObActions
    /\ RetryAllowed(retry_times)
    /\ StartSession(restore_workspace(w), "auto", attempts + 1)
    /\ retry_times' = retry_times + 1
    /\ toggle' = TRUE
    /\ UNCHANGED <<action, host_assistance, version3, speed_fl, speed, fl_step_count,
                   calibVars, fillVars, unitVars, dismissed>>

\* 2858-2881: the Retry button of the FAILED screen of the other actions
UI_Retry ==
    /\ ~dismissed
    /\ update_state = "FAILED"
    /\ action \notin FlObActions
    /\ StartSession(restore_workspace(w), "retry", 1)
    /\ UNCHANGED <<paramVars, calibVars, fillVars, unitVars, dismissed, retry_times>>

\* 2891-2896, 2982-2988: what a draw of the CALIB_COMPLETE screen writes to the sensor
DrawComplete(ws, act) ==
    CASE act = "UVMAPPING_CALIB" ->
           [ws EXCEPT !.emitter = ws.laser_status_prev, !.thermal = ws.laser_status_prev]
      [] act = "FL_CALIB" ->
           [ws EXCEPT !.emitter = ws.laser_status_prev, !.thermal = ws.thermal_loop_prev]
      [] OTHER -> ws

WritesBack(act) == act \in {"UVMAPPING_CALIB", "FL_CALIB"}

\* a draw of the CALIB_COMPLETE screen with no button pressed
UI_DrawComplete ==
    /\ ~dismissed
    /\ update_state = "CALIB_COMPLETE"
    /\ WritesBack(action)
    /\ w' = DrawComplete(w, action)
    /\ emitter_writes' = OneMore(emitter_writes)
    /\ thermal_writes' = OneMore(thermal_writes)
    /\ UNCHANGED <<paramVars, calibVars, fillVars, unitVars, _progress, fw_calls, pmVars, wpc,
                   uiVars, s0, last_start, attempts>>

\* 2961-2974, 3400-3415: Apply / Apply New on the CALIB_COMPLETE screen
UI_Apply ==
    /\ ~dismissed /\ wpc = "idle"
    /\ update_state = "CALIB_COMPLETE"
    /\ w' = restore_workspace(DrawComplete(w, action))
    /\ emitter_writes' = IF WritesBack(action) THEN OneMore(emitter_writes) ELSE emitter_writes
    /\ thermal_writes' = IF WritesBack(action) THEN OneMore(thermal_writes) ELSE thermal_writes
    /\ update_state' = "COMPLETE"
    /\ UNCHANGED <<paramVars, calibVars, fillVars, unitVars, _progress, fw_calls, pmVars, wpc,
                   dismissed, retry_times, s0, last_start, attempts>>

\* 3523-3539: dismiss(snooze)
UI_Dismiss ==
    /\ ~dismissed /\ wpc = "idle"
    /\ update_state # "CALIB_IN_PROCESS"
    /\ w' = restore_workspace(w)
    /\ update_state' = IF update_state = "TARE_INPUT" THEN update_state ELSE "INITIAL_PROMPT"
    /\ _progress' = 0 /\ _done' = FALSE /\ _failed' = FALSE /\ _started' = FALSE
    /\ dismissed' = TRUE
    /\ UNCHANGED <<paramVars, calibVars, fillVars, unitVars, fw_calls, wpc, retry_times, histVars>>

(***************************************************************************)
(* Initial states                                                          *)
(***************************************************************************)

\* a manager nobody has started, over the workspace ws0
SessionIdle(ws0) ==
    /\ _done = FALSE /\ _failed = FALSE /\ _started = FALSE
    /\ wpc = "idle"
    /\ w = ws0
    /\ dismissed = FALSE
    /\ retry_times = 0
    /\ s0 = Snapshot(ws0)
    /\ emitter_writes = 0 /\ thermal_writes = 0
    /\ last_start = "none"
    /\ attempts = 0

\* a workspace in which what a session switches off is on
Workspace(view3d, streams, th) ==
    [is_3d_view |-> view3d, synchronization_enable |-> TRUE,
     streaming |-> streams, post_processing_enabled |-> TRUE, ui |-> "user",
     emitter |-> 1, thermal |-> th,
     laser_status_prev |-> 0, thermal_loop_prev |-> 0,
     _in_3d_view |-> FALSE, _was_streaming |-> FALSE, _synchronized |-> FALSE,
     _post_processing |-> FALSE, _restored |-> TRUE, _ui |-> "null",
     overridden |-> FALSE]

FillIdle ==
    fm_data = ZeroTable /\ fm_orig = ZeroTable /\ fm_size = TableCap /\ fm_state = "idle"

\* no helper function is called on its own
UnitIdle == fd = FetchIdle /\ sv = SelectIdle /\ dm = MetricsIdle /\ tb = PatchIdle /\ uv = UvIdle /\ hc = HelperIdle

CalibLocalsInit == loc = LocInit /\ fill_factor = ZeroTable /\ threw_at = "none"

\* one run of calibrate() on a manager whose process was just started
CalibInit ==
    /\ action \in CalibrateActions
    /\ host_assistance \in {0, 1}
    /\ version3 \in BOOLEAN
    /\ toggle \in BOOLEAN
    /\ speed_fl \in 0 .. 2
    /\ speed \in 0 .. 4
    /\ fl_step_count = FlSteps(0)
    /\ cpc = "entry"
    /\ CalibLocalsInit
    /\ _progress = 0
    /\ fw_calls = <<>>
    /\ FillIdle
    /\ UnitIdle
    /\ update_state = "CALIB_IN_PROCESS"
    /\ SessionIdle(Workspace(TRUE, TRUE, 1))

CalibNext ==
    \/ C_Entry \/ C_Fetch0 \/ C_V3Wait \/ C_FwInit
    \/ C_FwCallback \/ C_FwThrow \/ C_FwReturn
    \/ C_HaWait \/ C_Sample \/ C_Fill \/ C_ObWait2
    \/ C_TareSample \/ C_TareFetch \/ C_TareCommit

\* the sizes calibrate() passes (total_frames: 41 .. 256) leave room for the
\* two entries the size check asks for behind the first one
MinSize == 3

\* the tables calibrate() hands over: nothing is ever stored at or above size
FillInit ==
    /\ fm_size \in MinSize .. TableCap
    /\ fm_orig \in {t \in [Slots -> 0 .. MaxFill] : \A i \in Slots : i >= fm_size => t[i] = 0}
    /\ fm_data = fm_orig
    /\ fm_state = "call"
    /\ UnitIdle
    /\ action = "ON_CHIP_CALIB" /\ host_assistance = 0 /\ version3 = FALSE
    /\ toggle = FALSE /\ speed_fl = 0 /\ speed = 0 /\ fl_step_count = FlSteps(0)
    /\ cpc = "idle"
    /\ CalibLocalsInit
    /\ _progress = 0
    /\ fw_calls = <<>>
    /\ update_state = "SELF_INPUT"
    /\ SessionIdle(Workspace(TRUE, TRUE, 1))

FillCall ==
    /\ fm_state = "call"
    /\ \E oob \in OobOutcomes :
         LET r == fill_missing_data(fm_data, fm_size, oob)
         IN  /\ fm_data' = r.data
             /\ fm_state' = r.outcome
    /\ UNCHANGED <<fm_orig, fm_size, unitVars, paramVars, calibVars, _progress, fw_calls, sessionVars>>

SpecFill == FillInit /\ [][FillCall]_vars

\* the manager and the notification while a helper is called on its own
ManagerIdle ==
    /\ action = "ON_CHIP_CALIB" /\ host_assistance = 0 /\ version3 = FALSE
    /\ toggle = FALSE /\ speed_fl = 0 /\ speed = 0 /\ fl_step_count = FlSteps(0)
    /\ cpc = "idle"
    /\ CalibLocalsInit
    /\ _progress = 0
    /\ fw_calls = <<>>
    /\ update_state = "SELF_INPUT"
    /\ SessionIdle(Workspace(TRUE, TRUE, 1))
    /\ FillIdle

\* a call of fetch_depth_frame over any streams and any selection
FetchInit ==
    /\ \E ss \in StreamSets, t \in 1 .. MaxTimeout :
         fd = [streams |-> ss, timeout |-> t, elapsed |-> 0, state |-> "polling", res |-> 0]
    /\ sv = SelectIdle /\ dm = MetricsIdle /\ tb = PatchIdle /\ uv = UvIdle /\ hc = HelperIdle
    /\ ManagerIdle

SpecFetch == FetchInit /\ [][FetchPoll]_vars

\* a call of start_viewer on a sensor with MaxRes resolutions and MaxFps frame
\* rates, any of them selected, for any request; 0 is a value no list holds
SelectInit ==
    /\ \E rv \in Distinct(MaxRes, 1 .. (MaxRes + 1)),
          sup \in SUBSET ((1 .. MaxRes) \X (1 .. MaxFps)),
          r \in 0 .. (MaxRes + 1), f \in 0 .. MaxFps,
          r0 \in 1 .. MaxRes, f0 \in 1 .. MaxFps :
         sv = [res_values |-> rv, fps_values |-> [i \in 1 .. MaxFps |-> i],
               supported |-> sup, res |-> r, fps |-> f,
               res_id |-> r0, fps_id |-> f0, res_id1 |-> 0, fps_id1 |-> 0, state |-> "call"]
    /\ fd = FetchIdle /\ dm = MetricsIdle /\ tb = PatchIdle /\ uv = UvIdle /\ hc = HelperIdle
    /\ ManagerIdle

SpecSelect == SelectInit /\ [][SelectCall]_vars

MetricsInit == dm = MetricsStart /\ fd = FetchIdle /\ sv = SelectIdle /\ tb = PatchIdle /\ uv = UvIdle /\ hc = HelperIdle /\ ManagerIdle

SpecMetrics == MetricsInit /\ [][DmFrame \/ DmBundleEnd]_vars

\* the table read from the device (1973), with any checksum, and any ratio
PatchInit ==
    /\ \E b \in [1 .. BodyFields -> FieldValues], c \in {0, 7}, r \in Ratios :
         LET t == [crc32 |-> c, body |-> b]
         IN  tb = [_old_calib |-> t, _new_calib |-> EmptyTable, old0 |-> t,
                   ratio |-> r, state |-> "patch"]
    /\ fd = FetchIdle /\ sv = SelectIdle /\ dm = MetricsIdle /\ uv = UvIdle /\ hc = HelperIdle
    /\ ManagerIdle

SpecPatch == PatchInit /\ [][PatchCall]_vars

\* the pixels of the dots, on the line scale * coordinate + offset
PixelsOf(xs, scale, offset) == [i \in 1 .. 4 |-> scale * xs[i] + offset]

\* a call for any four dots, any limit, and reference parameters that are
\* zero (1846-1849) or the current intrinsics
UvInit ==
    /\ \E xs, ys \in DotCoordinates, sx, sy \in DotScales, ox, oy \in DotOffsets,
          m \in 1 .. MaxChange, p \in {0, 4} :
         uv = [UvIdle EXCEPT !.x = xs, !.y = ys,
                             !._color_x = PixelsOf(xs, sx, ox), !._color_y = PixelsOf(ys, sy, oy),
                             !._max_change = m, !.fx = p, !.fy = p, !.ppx = p, !.ppy = p,
                             !.prior = p,
                             !.state = "call"]
    /\ fd = FetchIdle /\ sv = SelectIdle /\ dm = MetricsIdle /\ tb = PatchIdle /\ hc = HelperIdle
    /\ ManagerIdle

SpecUv == UvInit /\ [][UvCall]_vars

\* the other variables while hc follows a helper
NoOtherCall ==
    fd = FetchIdle /\ sv = SelectIdle /\ dm = MetricsIdle /\ tb = PatchIdle /\ uv = UvIdle
        /\ ManagerIdle

\* a call of try_start_viewer from any workspace a session can be in
TryStartInit ==
    /\ \E view3d \in BOOLEAN, streams \in BOOLEAN, th \in {0, 1}, em \in {0, 1} :
         LET ws == [Workspace(view3d, streams, th) EXCEPT !.emitter = em]
         IN  hc = [unit |-> "try_start_viewer", ws |-> ws, ws0 |-> ws, starts |-> 0,
                   count |-> 0, frame_arrived |-> FALSE, seen |-> <<>>, pos |-> "call"]
    /\ NoOtherCall

SpecTryStart == TryStartInit /\ [][TsStartViewer \/ TsPoll \/ TsReturned]_vars

HealthInit ==
    /\ \E c \in HealthCodes :
         hc = [unit |-> "health", h_both |-> c, _health_1 |-> 0, _health_2 |-> 0, pos |-> "call"]
    /\ NoOtherCall

SpecHealth == HealthInit /\ [][HealthDecode]_vars

\* a call of start_viewer for an action, with any streams enabled before it
\* and any uids found for the formats it looks up
StreamsInit ==
    /\ \E act \in {"ON_CHIP_CALIB", "TARE_CALIB", "FL_CALIB", "UVMAPPING_CALIB"},
          fl \in BOOLEAN, en \in SUBSET StreamUids, cen \in SUBSET ColorUids,
          u \in StreamUids, u2 \in StreamUids, uc \in ColorUids :
         /\ fl => act = "FL_CALIB"
         /\ hc = [unit |-> "streams", action |-> act,
                  two_streams |-> (fl \/ act = "UVMAPPING_CALIB"),
                  stream_enabled |-> en, color_enabled |-> cen,
                  _uid |-> u, _uid2 |-> u2, _uid_color |-> uc, pos |-> "call"]
    /\ NoOtherCall

SpecStreams == StreamsInit /\ [][SelectStreams]_vars

(***************************************************************************)
(* get_depth_metrics, the do-while loop over bundles (762-786) with the    *)
(* frames of a bundle reduced to the estimate they give.  hc is the call:  *)
(* rms_std and new_rms_std are <<v>> for the value v and <<>> for the      *)
(* value that is not a number (no frame of the bundle fitted a plane);     *)
(* bundles and frames count the bundles finished and the frames fetched.   *)
(***************************************************************************)
\* 774: for (int i = 0; i < 31; i++)
FramesPerBundle == 31

\* estimates a bundle can give: a chain in which each is below 80% of the one
\* before and above 10, values outside the chain, and not-a-number
RmsEstimates ==
    {<<>>} \cup {<<v>> : v \in {5, 10, 11, 14, 18, 23, 29, 37, 47, 59, 74, 93, 117, 900}}

\* sum of squares and size of a bundle with the estimate r
AsSquares(r) == IF r = <<>> THEN <<0, 0>> ELSE <<r[1] * r[1], 1>>

\* 770-772: the head of the do-while body
BlBegin ==
    /\ hc.unit = "bundles" /\ hc.pos = "begin"
    /\ hc' = [hc EXCEPT !.rms_std = hc.new_rms_std, !.i = 0, !.pos = "bundle"]
    /\ UNCHANGED notHc

\* 774-782: one frame of the bundle; fetch_depth_frame returns or throws
BlFrame ==
    /\ hc.unit = "bundles" /\ hc.pos = "bundle"
    /\ hc.i < FramesPerBundle
    /\ \/ hc' = [hc EXCEPT !.i = hc.i + 1, !.frames = hc.frames + 1]
       \/ hc' = [hc EXCEPT !.pos = "thrown"]
    /\ UNCHANGED notHc

\* 784-786: the estimate of the bundle and the loop condition
BlEnd ==
    /\ hc.unit = "bundles" /\ hc.pos = "bundle"
    /\ hc.i = FramesPerBundle
    /\ \E est \in RmsEstimates :
         LET again == RepeatBundle(AsSquares(est), AsSquares(hc.rms_std))
         IN  hc' = [hc EXCEPT !.new_rms_std = est,
                              !.bundles = hc.bundles + 1,
                              !.count = IF again THEN hc.count + 1 ELSE hc.count,
                              !.pos = IF again /\ hc.count < MaxBundleRepeats
                                      THEN "begin" ELSE "returned"]
    /\ UNCHANGED notHc

\* 762-764
BundlesInit ==
    /\ hc = [unit |-> "bundles", rms_std |-> <<1000>>, new_rms_std |-> <<1000>>, count |-> 0,
             i |-> 0, bundles |-> 0, frames |-> 0, pos |-> "begin"]
    /\ NoOtherCall

BundlesNext == BlBegin \/ BlFrame \/ BlEnd

SpecBundles == BundlesInit /\ [][BundlesNext]_vars /\ WF_vars(BundlesNext)

(***************************************************************************)
(* stop_viewer(invoker) (67-100) and stop_viewer() (134-171).  hc is the   *)
(* call: streams is _viewer.streams, each stream with selected (its        *)
(* original_profile is one of the profiles read at 71 / 138) and age, the  *)
(* milliseconds since its last_frame; with_invoker tells the overload and  *)
(* caught that the handler of 99 / 170 was entered.                        *)
(***************************************************************************)
FrameAges == {0, 150, 250}

ViewerStreams ==
    {<<>>} \cup {<<a>> : a \in [selected : BOOLEAN, age : FrameAges]}
           \cup {<<a, b>> : a, b \in [selected : BOOLEAN, age : FrameAges]}

\* 85-95, 147-157: frame_arrived after the for loop over the streams
AfterScan(streams, frame_arrived) ==
    IF \E i \in 1 .. Len(streams) : ~streams[i].selected \/ streams[i].age > 200
    THEN FALSE ELSE frame_arrived

\* 71-82, 138-144: the sensors are stopped; stop() returns or throws into catch (...)
SW_Stop ==
    /\ hc.unit = "stop_viewer" /\ hc.pos = "call"
    /\ \/ hc' = [hc EXCEPT !.frame_arrived = FALSE, !.pos = "wait"]
       \/ hc' = [hc EXCEPT !.caught = TRUE, !.pos = "returned"]
    /\ UNCHANGED notHc

\* 83-97, 145-168: while (frame_arrived && _viewer.streams.size()), then the rest
SW_Wait ==
    /\ hc.unit = "stop_viewer" /\ hc.pos = "wait"
    /\ IF hc.frame_arrived /\ Len(hc.streams) # 0
       THEN hc' = [hc EXCEPT !.frame_arrived = AfterScan(hc.streams, hc.frame_arrived),
                             !.streams = [i \in 1 .. Len(hc.streams) |->
                                            [hc.streams[i] EXCEPT !.age = 250]]]
       ELSE hc' = [hc EXCEPT !.streams = IF hc.with_invoker THEN hc.streams ELSE <<>>,
                             !.pos = "returned"]
    /\ UNCHANGED notHc

StopInit ==
    /\ \E st \in ViewerStreams, inv \in BOOLEAN :
         hc = [unit |-> "stop_viewer", with_invoker |-> inv, streams |-> st,
               frame_arrived |-> FALSE, caught |-> FALSE, pos |-> "call"]
    /\ NoOtherCall

SpecStop == StopInit /\ [][SW_Stop \/ SW_Wait]_vars


(***************************************************************************)
(* process_flow, the handler around the calibration method (2041-2058).    *)
(* hc is the handler: primary is the exception it caught, ws the           *)
(* workspace, steps the parts of the rollback that ran, leaving the        *)
(* exception that leaves process_flow ("none" while the handler runs).     *)
(* stop_viewer and start_viewer may fail inside (the device refuses to     *)
(* stop or to start); what leaves them is what their own handlers let out. *)
(***************************************************************************)
\* an exception that passes through a function without a handler
Propagate(e) == e

\* 99 and 666: catch (...) {} around the body of stop_viewer and of start_viewer
CatchAll(e) == "none"

\* 2043-2044: log, stop_viewer(invoke)
RB_Stop ==
    /\ hc.unit = "rollback" /\ hc.pos = "stop"
    /\ \E fails \in BOOLEAN :
         LET out == IF fails THEN CatchAll("stop failed") ELSE "none"
         IN  hc' = IF out # "none"
                   THEN [hc EXCEPT !.leaving = out, !.pos = "left"]
                   ELSE [hc EXCEPT !.ws = IF fails THEN hc.ws ELSE stop_viewer(hc.ws),
                                   !.steps = Append(hc.steps, "stop_viewer"),
                                   !.pos = "restore"]
    /\ UNCHANGED notHc

\* 2045-2056: the saved selection is put back, the streams are started again
RB_Restart ==
    /\ hc.unit = "rollback" /\ hc.pos = "restore"
    /\ \E fails \in BOOLEAN :
         LET ws1 == restore_ui(hc.ws)
             out == IF ws1._was_streaming /\ fails THEN CatchAll("start failed") ELSE "none"
         IN  hc' = IF out # "none"
                   THEN [hc EXCEPT !.ws = ws1, !.steps = Append(hc.steps, "restore_ui"),
                                   !.leaving = out, !.pos = "left"]
                   ELSE [hc EXCEPT !.ws = IF ws1._was_streaming /\ ~fails
                                          THEN start_viewer(ws1) ELSE ws1,
                                   !.steps = IF ws1._was_streaming
                                             THEN hc.steps \o <<"restore_ui", "start_viewer">>
                                             ELSE Append(hc.steps, "restore_ui"),
                                   !.pos = "rethrow"]
    /\ UNCHANGED notHc

\* 2057: throw;
RB_Rethrow ==
    /\ hc.unit = "rollback" /\ hc.pos = "rethrow"
    /\ hc' = [hc EXCEPT !.leaving = Propagate(hc.primary), !.pos = "left"]
    /\ UNCHANGED notHc

\* the handler is entered with the calibration streams running and the
\* selection of the user saved in _ui (2000)
RollbackInit ==
    /\ \E view3d \in BOOLEAN, streams \in BOOLEAN, th \in {0, 1}, em \in {0, 1},
          e \in {"runtime_error", "other exception"} :
         LET base == [Workspace(view3d, streams, th) EXCEPT !.emitter = em]
             ws == [start_viewer(base) EXCEPT !._was_streaming = streams, !._ui = base.ui]
         IN  hc = [unit |-> "rollback", primary |-> e, ws |-> ws, steps |-> <<>>,
                   leaving |-> "none", pos |-> "stop"]
    /\ NoOtherCall

SpecRollback == RollbackInit /\ [][RB_Stop \/ RB_Restart \/ RB_Rethrow]_vars

(***************************************************************************)
(* The calibration tables of a session: _old_calib read at the start of    *)
(* process_flow (1973), _new_calib produced by the method, the table the   *)
(* device uses (set_calibration_table) and the table in its flash          *)
(* (write_calibration), with the buttons of the CALIB_COMPLETE and FAILED  *)
(* screens that choose between them.                                       *)
(***************************************************************************)

\* the sessions of one notification that are followed
MaxSessions == 2
\* the tables sent to the device in one session that are followed
MaxSent == 4

\* the tables a device holds when a notification is opened
DeviceTables ==
    {[crc32 |-> calc_crc32(b, 0), body |-> b] : b \in {<<2, 2, 4, 4>>, <<4, 2, 2, 0>>}}

\* what a firmware calibration routine hands back: a table, or none
FirmwareTables == {EmptyTable, [crc32 |-> calc_crc32(<<2, 4, 2, 4>>, 0), body |-> <<2, 4, 2, 4>>]}

\* the sessions whose tables are followed
TableActions == {"ON_CHIP_CALIB", "TARE_CALIB", "FL_CALIB", "UVMAPPING_CALIB"}

\* calibration_table::size()
TableSize(t) == Len(t.body)

\* apply_calib without the test of the size
ApplyUnchecked(h, use_new) ==
    LET calib_table == IF use_new THEN h._new_calib ELSE h._old_calib
    IN  [h EXCEPT !.device = calib_table,
                  !.sent = Append(h.sent, [table |-> calib_table, use_new |-> use_new])]

\* 2144-2150: apply_calib(use_new)
apply_calib(h, use_new) ==
    LET calib_table == IF use_new THEN h._new_calib ELSE h._old_calib
    IN  IF TableSize(calib_table) > 0
        THEN [h EXCEPT !.device = calib_table,
                  !.sent = Append(h.sent, [table |-> calib_table, use_new |-> use_new])]
        ELSE h

\* 2137-2142: keep(), the device writes the table it uses to its flash
keep(h) ==
    [h EXCEPT !.flash = h.device,
              !.kept = Append(h.kept, [update_state |-> h.update_state, done |-> h._done,
                                       use_new_calib |-> h.use_new_calib,
                                       process_flow |-> h.pos # "idle"])]

\* 3523-3539: dismiss(snooze)
DismissTables(h) ==
    LET h1 == IF ~h.use_new_calib /\ h._done THEN apply_calib(h, FALSE) ELSE h
    IN  [h1 EXCEPT !.update_state = "INITIAL_PROMPT", !._done = FALSE, !._failed = FALSE,
                   !.dismissed = TRUE, !.original_chosen = ~h.use_new_calib]

\* 1973: _old_calib = calib_dev.get_calibration_table()
T_Capture ==
    /\ hc.unit = "tables" /\ hc.pos = "capture"
    /\ hc' = [hc EXCEPT !._old_calib = hc.device, !.pos = "method",
                        !.before_capture = [calls |-> hc.calls, sent |-> hc.sent]]
    /\ UNCHANGED notHc

\* 2028-2068: the method of the session: a firmware routine that hands back
\* the new table (996-998, 1439, 1493), the patch of the old table
\* (1705-1713), or an exception that ends process_flow
T_Method ==
    /\ hc.unit = "tables" /\ hc.pos = "method"
    /\ \/ \E t \in FirmwareTables :
            /\ hc.action = "UVMAPPING_CALIB" => t # EmptyTable
            /\ hc' = [hc EXCEPT !._new_calib = t, !.calls = hc.calls + 1, !.pos = "apply"]
       \/ /\ hc.action = "FL_CALIB"
          /\ \E r \in Ratios :
               hc' = [hc EXCEPT !._new_calib = PatchTable(hc._old_calib, r), !.pos = "apply"]
       \/ hc' = [hc EXCEPT !.calls = hc.calls + 1, !._failed = TRUE, !.pos = "idle"]
    /\ UNCHANGED notHc

\* 2090-2101: apply_calib(true) for every action but UV-Mapping, the metrics
\* of the new table (which may throw), _done = true
T_Finish ==
    /\ hc.unit = "tables" /\ hc.pos = "apply"
    /\ LET h1 == IF hc.action = "UVMAPPING_CALIB" THEN hc ELSE apply_calib(hc, TRUE)
       IN  \E thrown \in BOOLEAN :
             /\ thrown => hc.action # "UVMAPPING_CALIB"
             /\ hc' = [h1 EXCEPT !._done = ~thrown, !._failed = thrown, !.pos = "idle"]
    /\ UNCHANGED notHc

\* 3491-3506: a draw of the CALIB_IN_PROCESS screen
T_Observe ==
    /\ hc.unit = "tables" /\ ~hc.dismissed
    /\ hc.update_state = "CALIB_IN_PROCESS"
    /\ hc._done \/ hc._failed
    /\ hc' = IF hc._done
             THEN [apply_calib(hc, TRUE) EXCEPT !.update_state = "CALIB_COMPLETE",
                                                 !.use_new_calib = TRUE]
             ELSE [hc EXCEPT !.update_state = "FAILED"]
    /\ UNCHANGED notHc

\* 3341-3352: the radio buttons New and Original
T_Radio ==
    /\ hc.unit = "tables" /\ ~hc.dismissed
    /\ hc.update_state = "CALIB_COMPLETE" /\ hc.action # "UVMAPPING_CALIB"
    /\ Len(hc.sent) < MaxSent
    /\ \E new \in BOOLEAN :
         hc' = apply_calib([hc EXCEPT !.use_new_calib = new], new)
    /\ UNCHANGED notHc

\* 2961-2974: Apply of a UV-Mapping session; 3400-3415: Apply New, which is
\* Keep Original when the original table is selected
T_Button ==
    /\ hc.unit = "tables" /\ ~hc.dismissed
    /\ hc.update_state = "CALIB_COMPLETE"
    /\ hc' = IF hc.action = "UVMAPPING_CALIB"
             THEN [keep(apply_calib(hc, TRUE)) EXCEPT !.update_state = "COMPLETE"]
             ELSE IF hc.use_new_calib
                  THEN [keep(hc) EXCEPT !.update_state = "COMPLETE"]
                  ELSE DismissTables(hc)
    /\ UNCHANGED notHc

\* the dismiss button of the CALIB_COMPLETE, COMPLETE and FAILED screens
T_Dismiss ==
    /\ hc.unit = "tables" /\ ~hc.dismissed
    /\ hc.update_state \in {"CALIB_COMPLETE", "COMPLETE", "FAILED"}
    /\ hc' = DismissTables(hc)
    /\ UNCHANGED notHc

\* 2858-2881: Retry on the FAILED screen: reset() and start(), a new session
T_Retry ==
    /\ hc.unit = "tables" /\ ~hc.dismissed
    /\ hc.update_state = "FAILED"
    /\ hc.sessions < MaxSessions
    /\ hc' = [hc EXCEPT !._done = FALSE, !._failed = FALSE, !.pos = "capture",
                        !.update_state = "CALIB_IN_PROCESS", !.sessions = hc.sessions + 1,
                        !.active0 = hc.device, !.calls = 0, !.sent = <<>>]
    /\ UNCHANGED notHc

\* 3365-3391: Recalibrate on the CALIB_COMPLETE screen of a focal-length
\* session: reset() and start(), a new session
T_Recalibrate ==
    /\ hc.unit = "tables" /\ ~hc.dismissed
    /\ hc.update_state = "CALIB_COMPLETE" /\ hc.action = "FL_CALIB"
    /\ hc.sessions < MaxSessions
    /\ hc' = [hc EXCEPT !._done = FALSE, !._failed = FALSE, !.pos = "capture",
                        !.update_state = "CALIB_IN_PROCESS", !.sessions = hc.sessions + 1,
                        !.active0 = hc.device, !.calls = 0, !.sent = <<>>]
    /\ UNCHANGED notHc

\* the Calibrate button has just started a session on a device with a table;
\* the notification is new, with the new table selected
TablesInit ==
    /\ \E act \in TableActions, t \in DeviceTables :
         hc = [unit |-> "tables", action |-> act, pos |-> "capture",
               _done |-> FALSE, _failed |-> FALSE,
               update_state |-> "CALIB_IN_PROCESS", dismissed |-> FALSE,
               use_new_calib |-> TRUE, original_chosen |-> FALSE,
               _old_calib |-> EmptyTable, _new_calib |-> EmptyTable,
               device |-> t, flash |-> t, active0 |-> t,
               calls |-> 0, sent |-> <<>>, kept |-> <<>>, sessions |-> 1,
               before_capture |-> [calls |-> 0, sent |-> <<>>]]
    /\ NoOtherCall

TablesNext ==
    T_Capture \/ T_Method \/ T_Finish \/ T_Observe \/ T_Radio \/ T_Button \/ T_Dismiss
        \/ T_Retry \/ T_Recalibrate

SpecTables == TablesInit /\ [][TablesNext]_vars

(***************************************************************************)
(* The streams of a focal-length session: process_flow picks the frame     *)
(* rate from the USB descriptor and starts the calibration streams         *)
(* (2010-2025, 412, 520-564); calibrate_fl then waits on the queues of     *)
(* _uid and _uid2 (1421-1433).                                             *)
(***************************************************************************)

\* RS2_CAMERA_INFO_USB_TYPE_DESCRIPTOR; "none": the device has no such info
UsbDescriptors == {"3.2", "2.1", "none"}

\* starts_with(desc, "3.")
StartsWith3(desc) == desc = "3.2"

\* 2010-2016
FlFps(desc) == IF desc # "none" /\ ~StartsWith3(desc) THEN 5 ELSE 30

\* 412: bool run_fl_calib
RunFlCalib(act, req_w, req_h, fps) ==
    act = "FL_CALIB" /\ req_w = 1280 /\ req_h = 720 /\ fps = 30

\* 2018-2025 with 412 and 520-564: start_viewer(1280, 720, fps) of an
\* FL_CALIB session.  y8 lists the uids of the Y8 formats in the order of
\* _sub->formats, z16 is the uid of the first Z16 format.
FS_Start ==
    /\ hc.unit = "fl_streams" /\ hc.pos = "start"
    /\ LET fps == FlFps(hc.usb)
           run_fl_calib == RunFlCalib("FL_CALIB", 1280, 720, fps)
       IN  hc' = IF run_fl_calib
                 THEN [hc EXCEPT !.fps = fps, !._uid = hc.y8[1], !._uid2 = hc.y8[2],
                                 !.stream_enabled = {hc.y8[1], hc.y8[2]}, !.pos = "gather"]
                 ELSE [hc EXCEPT !.fps = fps, !._uid = hc.z16,
                                 !.stream_enabled = {hc.z16}, !.pos = "gather"]
    /\ UNCHANGED notHc

\* 1421-1433: one iteration of while (counter < frames_required); a queue
\* whose stream is not enabled hands nothing over and wait_for_frame throws
FS_Gather ==
    /\ hc.unit = "fl_streams" /\ hc.pos = "gather"
    /\ hc.counter < frames_required
    /\ hc' = IF {hc._uid, hc._uid2} \subseteq hc.stream_enabled
             THEN [hc EXCEPT !.counter = hc.counter + 1, !.waited = hc.waited \cup {hc._uid, hc._uid2}]
             ELSE [hc EXCEPT !.waited = hc.waited \cup {hc._uid, hc._uid2}, !.pos = "failed"]
    /\ UNCHANGED notHc

\* 1434-1446: the frames are handed to the device
FS_Done ==
    /\ hc.unit = "fl_streams" /\ hc.pos = "gather"
    /\ hc.counter >= frames_required
    /\ hc' = [hc EXCEPT !.pos = "done"]
    /\ UNCHANGED notHc

\* an FL_CALIB session about to start its streams, on any connection, with
\* whatever _uid and _uid2 hold from the start_viewer calls before
FlStreamsInit ==
    /\ \E usb \in UsbDescriptors, z \in StreamUids, u \in StreamUids, u2 \in StreamUids,
          en \in SUBSET StreamUids :
         LET ir == StreamUids \ {z}
             left == CHOOSE a \in ir : \A b \in ir : a <= b
             right == CHOOSE a \in ir : a # left
         IN  hc = [unit |-> "fl_streams", usb |-> usb, fps |-> 0, z16 |-> z,
                   y8 |-> <<left, right>>, _uid |-> u, _uid2 |-> u2,
                   stream_enabled |-> en, counter |-> 0, waited |-> {}, pos |-> "start"]
    /\ NoOtherCall

SpecFlStreams == FlStreamsInit /\ [][FS_Start \/ FS_Gather \/ FS_Done]_vars

(***************************************************************************)
(* get_ground_truth by the rectangle of the target (1868-1951): frames are *)
(* handed to the rect_calculator until it has its rectangle, the distance  *)
(* is the mean of the four ratios target size / rectangle side, and it is  *)
(* stored under ground_truth_r.  Ratios are in hundredths.                 *)
(***************************************************************************)

\* frames in which no target is found before the loop gives up
\* (rect_calculator::_frame_num << 1)
MaxMisses == 4
\* frames the calculator takes to average a rectangle that can be seen
MaxRectFrames == 3
\* the sides of the rectangle, in pixels
RectSides == {0, 50, 60000}
\* fx * target_width_r, fy * target_height_r
TargetFw == 600
TargetFh == 500

\* 1918-1927: gt[i], in hundredths; 0 when the side is not positive
GtOf(target, side) == IF side > 0 THEN (100 * target) \div side ELSE 0

\* 1886-1911: one iteration of while (counter < limit); ret is what
\* rect_calculator::calculate hands back
RT_Frame ==
    /\ hc.unit = "rect_truth" /\ hc.pos = "gather"
    /\ hc.counter < MaxMisses
    /\ \/ \E ret \in 0 .. 2 :
            /\ ret = 1 => hc.averaged < MaxRectFrames
            /\ hc' = [hc EXCEPT !.ret = ret,
                                !.counter = IF ret = 0 THEN hc.counter + 1 ELSE hc.counter,
                                !.averaged = IF ret = 1 THEN hc.averaged + 1 ELSE hc.averaged,
                                !.pos = IF ret = 2 THEN "result" ELSE "gather"]
       \/ \* wait_for_frame throws: 1943-1950
          hc' = [hc EXCEPT !.failures = Append(hc.failures, "exception"), !.pos = "done"]
    /\ UNCHANGED notHc

\* 1886: the loop ends with counter = limit
RT_GaveUp ==
    /\ hc.unit = "rect_truth" /\ hc.pos = "gather"
    /\ hc.counter >= MaxMisses
    /\ hc' = [hc EXCEPT !.pos = "result"]
    /\ UNCHANGED notHc

\* 1913-1941: fail() records the failure and returns
RT_Result ==
    /\ hc.unit = "rect_truth" /\ hc.pos = "result"
    /\ IF hc.ret # 2
       THEN hc' = [hc EXCEPT !.failures = Append(hc.failures, "no target"), !.pos = "done"]
       ELSE \E rs \in [1 .. 4 -> RectSides] :
              LET gt == <<GtOf(TargetFw, rs[1]), GtOf(TargetFw, rs[2]),
                          GtOf(TargetFh, rs[3]), GtOf(TargetFh, rs[4])>>
                  bad == \E i \in 1 .. 4 : gt[i] <= 10
                  ground_truth == (gt[1] + gt[2] + gt[3] + gt[4]) \div 4
              IN  hc' = [hc EXCEPT !.rect_sides = rs,
                                   !.failures = IF bad THEN Append(hc.failures, "bad sides")
                                                ELSE hc.failures,
                                   !.ground_truth_r = ground_truth,
                                   !.pos = "done"]
    /\ UNCHANGED notHc

\* a TARE_GROUND_TRUTH session calls get_ground_truth (2028-2029) with the
\* distance stored before: 1200 mm, the default, in hundredths
RectTruthInit ==
    /\ hc = [unit |-> "rect_truth", counter |-> 0, averaged |-> 0, ret |-> 0,
             rect_sides |-> [i \in 1 .. 4 |-> 0], failures |-> <<>>,
             ground_truth_r |-> 120000, stored0 |-> 120000, pos |-> "gather"]
    /\ NoOtherCall

SpecRectTruth == RectTruthInit /\ [][RT_Frame \/ RT_GaveUp \/ RT_Result]_vars

(***************************************************************************)
(* The pixels a host-assisted sampler of calibrate() reads in one frame    *)
(* (1006-1016, 1057-1074, 1297-1307, 1343-1361).  A pixel is its index in  *)
(* the frame data, row * width + column; p is the index the pointer is at. *)
(***************************************************************************)

\* f.get_width(), f.get_height()
FrameSizes == {<<5, 5>>, <<10, 10>>, <<16, 10>>, <<10, 25>>, <<16, 25>>, <<25, 30>>}
Samplers == {"tare", "on_chip", "focal_length"}

\* 1297-1307: the rows [from, to) of a sampler; loc is fl_scan_location
SampledRows(sampler, frame_h, scan_loc) ==
    LET h5 == frame_h \div 5
        from == IF sampler = "focal_length" /\ scan_loc = 1 THEN 2 * h5 + h5 - 5 ELSE 2 * h5
    IN  [from |-> from, to |-> IF sampler = "focal_length" THEN from + 5 ELSE 2 * h5 + h5]

\* 1059-1060, 1343-1344: the pointer is set to the first pixel
S_Begin ==
    /\ hc.unit = "sampler" /\ hc.pos = "begin"
    /\ LET rows == SampledRows(hc.sampler, hc.height, hc.fl_scan_location)
           roi_start_w == 2 * (hc.width \div 5)
       IN  hc' = [hc EXCEPT !.from = rows.from, !.to = rows.to, !.j = rows.from, !.i = 0,
                            !.p = rows.from * hc.height + roi_start_w,
                            !.pos = IF rows.from < rows.to THEN "row" ELSE "done"]
    /\ UNCHANGED notHc

\* 1062-1074, 1347-1356: one pass of the inner loop, *p and ++p, and behind
\* the last pixel of a row p += width and ++j; w5 is roi_w of this frame
S_Pixel ==
    /\ hc.unit = "sampler" /\ hc.pos = "row"
    /\ LET w5 == hc.width \div 5
           last == hc.i + 1 >= w5
       IN  hc' = [hc EXCEPT !.read = Append(hc.read, hc.p),
                            !.p = IF last THEN hc.p + 1 + hc.width ELSE hc.p + 1,
                            !.i = IF last THEN 0 ELSE hc.i + 1,
                            !.j = IF last THEN hc.j + 1 ELSE hc.j,
                            !.pos = IF last /\ hc.j + 1 >= hc.to THEN "done" ELSE "row"]
    /\ UNCHANGED notHc

\* a frame of any size is handed to any sampler
SamplerInit ==
    /\ \E size \in FrameSizes, sampler \in Samplers, scan_loc \in {0, 1} :
         /\ scan_loc = 1 => sampler = "focal_length"
         /\ hc = [unit |-> "sampler", sampler |-> sampler, fl_scan_location |-> scan_loc,
                  width |-> size[1], height |-> size[2],
                  from |-> 0, to |-> 0, j |-> 0, i |-> 0, p |-> 0, read |-> <<>>,
                  pos |-> "begin"]
    /\ NoOtherCall

SpecSampler == SamplerInit /\ [][S_Begin \/ S_Pixel]_vars

(***************************************************************************)
(* The frame batches of get_ground_truth (1513-1566), calibrate_fl (1408-  *)
(* 1458) and calibrate_uv_mapping (1460-1511).  hc is the call: queues is  *)
(* the number of frames in each local frame_queue, waits the iterations    *)
(* of the gathering loop that have waited for frames, null_iter those of   *)
(* them that met an empty frame, invoked_with the queues the device        *)
(* routine was called with, failure what fail() was called for, persisted  *)
(* the stored ground truth.  _progress is not part of this unit.           *)
(***************************************************************************)
\* 1519: int limit = 50
limit == 50

GatherMethods == {"get_ground_truth", "calibrate_fl", "calibrate_uv_mapping"}

\* 1519, 1412, 1464: the frames the routine of a method needs
Required(m) == IF m = "get_ground_truth" THEN limit ELSE frames_required

\* 1522, 1414-1415, 1466-1468: the local queues of a method, empty
NewQueues(m) ==
    CASE m = "get_ground_truth" -> <<0>>
      [] m = "calibrate_fl" -> <<0, 0>>
      [] OTHER -> <<0, 0, 0>>

\* 1522, 1414, 1466: the capacity the queues are made with
Capacity(m) == IF m = "get_ground_truth" THEN limit * 2 ELSE frames_required

\* frame_queue::enqueue on every queue of the batch
Enqueue(m, qs) == [i \in DOMAIN qs |-> IF qs[i] < Capacity(m) THEN qs[i] + 1 ELSE qs[i]]

EnoughAlways(counter, m) == TRUE

\* 1538, 1435, 1490: if (counter >= limit), if (counter >= frames_required)
Enough(counter, m) == counter >= Required(m)

\* 1526, 1422, 1474: the loop condition; get_ground_truth increments frm_idx in it
GatherMore(c) ==
    /\ c.counter < Required(c.method)
    /\ c.method = "get_ground_truth" => c.frm_idx + 1 < limit * 2

\* frm_idx after the loop condition was evaluated
AfterCondition(c) ==
    IF c.method = "get_ground_truth" /\ c.counter < limit THEN c.frm_idx + 1 ELSE c.frm_idx

\* 1528-1534, 1424-1432, 1476-1486: one iteration of the gathering loop
G_Iterate ==
    /\ hc.unit = "gather" /\ hc.pos = "loop"
    /\ GatherMore(hc)
    /\ \/ \* every wait_for_frame hands back a frame
          hc' = [hc EXCEPT !.frm_idx = AfterCondition(hc), !.waits = hc.waits + 1,
                           !.queues = Enqueue(hc.method, hc.queues),
                           !.counter = hc.counter + 1]
       \/ \* a frame is empty
          /\ hc.method = "get_ground_truth" \/ hc.null_iter < MaxNullIter
          /\ hc' = [hc EXCEPT !.frm_idx = AfterCondition(hc), !.waits = hc.waits + 1,
                              !.null_iter = hc.null_iter + 1]
       \/ \* wait_for_frame throws: the handlers of 1558-1565, 1450-1457, 1503-1510
          hc' = [hc EXCEPT !.frm_idx = AfterCondition(hc), !.waits = hc.waits + 1,
                           !.failure = "exception", !.pos = "done"]
    /\ UNCHANGED notHc

\* 1538-1556, 1435-1448, 1490-1501: the loop has ended
G_Check ==
    /\ hc.unit = "gather" /\ hc.pos = "loop"
    /\ ~GatherMore(hc)
    /\ hc' = IF Enough(hc.counter, hc.method)
             THEN [hc EXCEPT !.frm_idx = AfterCondition(hc), !.invoked_with = hc.queues,
                             !.pos = "routine"]
             ELSE [hc EXCEPT !.frm_idx = AfterCondition(hc), !.failure = "insufficient",
                             !.pos = "done"]
    /\ UNCHANGED notHc

\* the target distances calculate_target_z may return
TargetZ == {-1, 0, 1200}

\* 1541-1553, 1439-1445, 1493-1498: the device routine returns or throws
G_Routine ==
    /\ hc.unit = "gather" /\ hc.pos = "routine"
    /\ \/ /\ hc.method = "get_ground_truth"
          /\ \E z \in TargetZ :
               hc' = IF z > 0 THEN [hc EXCEPT !.persisted = z, !.pos = "done"]
                     ELSE [hc EXCEPT !.failure = "no target", !.pos = "done"]
       \/ /\ hc.method = "calibrate_fl"
          /\ hc' = [hc EXCEPT !.pos = "done"]
       \/ /\ hc.method = "calibrate_uv_mapping"
          /\ \E tbl \in BOOLEAN :
               hc' = [hc EXCEPT !.failure = IF tbl THEN "none" ELSE "no table", !.pos = "done"]
       \/ hc' = [hc EXCEPT !.failure = "exception", !.pos = "done"]
    /\ UNCHANGED notHc

GatherInit ==
    /\ \E m \in GatherMethods, gt \in {0, 1000} :
         hc = [unit |-> "gather", method |-> m, counter |-> 0, frm_idx |-> 0, waits |-> 0,
               null_iter |-> 0, queues |-> NewQueues(m), invoked_with |-> <<>>,
               failure |-> "none", persisted |-> gt, persisted0 |-> gt, pos |-> "loop"]
    /\ NoOtherCall

SpecGather == GatherInit /\ [][G_Iterate \/ G_Check \/ G_Routine]_vars

SpecCalib == CalibInit /\ [][CalibNext]_vars

\* calibrate() keeps running, and a firmware call that was made returns
SpecCalibFair ==
    CalibInit /\ [][CalibNext]_vars /\ WF_vars(CalibNext) /\ WF_vars(C_FwReturn \/ C_FwThrow)

\* the screens a notification is opened on, with the action its owner selected
StartScreens ==
    {<<"SELF_INPUT", "ON_CHIP_CALIB">>, <<"SELF_INPUT", "ON_CHIP_FL_CALIB">>,
     <<"SELF_INPUT", "ON_CHIP_OB_CALIB">>, <<"TARE_INPUT", "TARE_CALIB">>,
     <<"FL_INPUT", "FL_CALIB">>, <<"UVMAPPING_INPUT", "UVMAPPING_CALIB">>,
     <<"INITIAL_PROMPT", "UVMAPPING_CALIB">>}

Init ==
    /\ \E sc \in StartScreens : update_state = sc[1] /\ action = sc[2]
    /\ host_assistance \in {0, 1}
    /\ version3 \in BOOLEAN
    /\ toggle = FALSE
    /\ speed_fl = 1
    /\ speed = 2
    /\ fl_step_count = FlSteps(1)
    /\ cpc = "idle"
    /\ CalibLocalsInit
    /\ _progress = 0
    /\ fw_calls = <<>>
    /\ FillIdle
    /\ UnitIdle
    /\ \E view3d \in BOOLEAN, streams \in BOOLEAN, th \in {0, 1} :
         SessionIdle(Workspace(view3d, streams, th))

Next ==
    \/ UI_Calibrate \/ UI_HealthCheck \/ UI_Observe \/ UI_AutoRetry \/ UI_Retry
    \/ UI_DrawComplete \/ UI_Apply \/ UI_Dismiss
    \/ W_Setup \/ W_Setup2 \/ W_Catch \/ W_Finish \/ W_Done \/ W_Escaped
    \/ A_Gather \/ A_GatherDone \/ A_MethodCallback \/ A_MethodReturn
    \/ CalibNext

Spec == Init /\ [][Next]_vars

(***************************************************************************)
(* The claims.  SpecFill: C1.  SpecCalib: C2, C10.  Spec: C3 .. C9.        *)
(***************************************************************************)

\* C1 (as claimed): every table with a non-zero entry among its first size
\* entries is repaired: the call returns, no entry below size is zero and
\* every entry that was non-zero keeps its value.
C1_FillRepairsEveryTable ==
    (fm_state # "call" /\ \E i \in 0 .. (fm_size - 1) : fm_orig[i] # 0)
        => /\ fm_state = "returned"
           /\ \A i \in 0 .. (fm_size - 1) :
                /\ fm_data[i] # 0
                /\ (fm_orig[i] # 0 => fm_data[i] = fm_orig[i])

\* the calls that hand a sampled table to the firmware as the last step of a scan
FinalCalls == {"occ_ha2", "ob_ha3"}

\* C2 (as claimed): when the table handed to fill_missing_data is all zero the
\* call throws, and the host-assisted run has issued no final firmware call.
C2_ZeroTableThrows ==
    (fill_factor = ZeroTable /\ (cpc = "fault" \/ (cpc = "threw" /\ threw_at = "fill")))
        => /\ cpc = "threw"
           /\ \A i \in 1 .. Len(fw_calls) : fw_calls[i] \notin FinalCalls

\* the session of the end-to-end scenario: ON_CHIP_CALIB, speed 2, no host assistance
OnChipScenario == action = "ON_CHIP_CALIB" /\ host_assistance = 0 /\ speed = 2

\* C3 (as claimed): while calibrate() of the scenario runs without throwing the
\* progress value never decreases, and when done is set the progress is 100
\* and failed is not set.  Every step the first conjunct constrains belongs to
\* a run that can still finish with done set.
C3_OnChipProgressMonotone ==
    /\ [][(OnChipScenario /\ wpc = "action" /\ wpc' = "action"
             /\ cpc' \notin {"threw", "fault"})
            => _progress' >= _progress]_vars
    /\ [](OnChipScenario /\ _done => _progress = 100 /\ ~_failed)

\* C4 (as claimed): once a successful session of the scenario is over (the
\* result was applied and the workspace restored) the emitter and the
\* thermal-compensation option have the values they had when it started.
C4_OptionsRestoredAfterOnChip ==
    (OnChipScenario /\ update_state = "COMPLETE" /\ _done /\ ~_failed)
        => w.emitter = s0.emitter /\ w.thermal = s0.thermal

\* a session is over: its result was applied, or the notification was dismissed
SessionOver == last_start # "none" /\ wpc = "idle" /\ (update_state = "COMPLETE" \/ dismissed)

\* C5 (as claimed): an option a session has overridden is never written back
\* twice, and when the session is over it has been written back exactly once,
\* with the value it had when the session started.
C5_OptionsWrittenBackOnce ==
    /\ emitter_writes <= 1 /\ thermal_writes <= 1
    /\ (SessionOver /\ w.overridden)
         => /\ emitter_writes = 1 /\ thermal_writes = 1
            /\ w.emitter = s0.emitter /\ w.thermal = s0.thermal

\* C6: retry_times never exceeds 3 and a user start is followed by at most 4
\* attempts; only OCC FL / OCC Extended sessions restart automatically; a
\* FAILED screen of such a session restarts by itself while retry_times < 3
\* (every step but a dismissal is the restart, which counts the retry) and
\* never once retry_times is 3; a FAILED screen of another action leaves
\* FAILED for a new run only by the Retry button.
C6_AutoRetryBounded ==
    /\ [](retry_times <= 3 /\ attempts <= 4
            /\ (last_start = "auto" => action \in FlObActions))
    /\ [][(update_state = "FAILED" /\ update_state' = "CALIB_IN_PROCESS")
            => IF action \in FlObActions
               THEN /\ retry_times < 3
                    /\ retry_times' = retry_times + 1
                    /\ attempts' = attempts + 1
                    /\ last_start' = "auto"
               ELSE /\ last_start' = "retry"
                    /\ retry_times' = retry_times]_vars
    /\ [][(update_state = "FAILED" /\ action \in FlObActions /\ retry_times < 3
             /\ ~dismissed')
            => update_state' = "CALIB_IN_PROCESS"]_vars

\* C6 witness: the third automatic retry of a session has failed
C6_ThirdRetryFailed ==
    /\ update_state = "FAILED" /\ action \in FlObActions
    /\ retry_times = 3 /\ attempts = 4 /\ last_start = "auto"

\* C7 (as claimed): when a session is over, the ui selection and the
\* post-processing, synchronization and 3D-view flags are what they were when
\* the session started.
C7_WorkspaceRestoredOnEveryExit ==
    SessionOver
        => /\ w.ui = s0.ui
           /\ w.post_processing_enabled = s0.post_processing_enabled
           /\ w.synchronization_enable = s0.synchronization_enable
           /\ w.is_3d_view = s0.is_3d_view

C9_ProgressInRange == _progress \in 0 .. 100

\* the positions of calibrate() the claim calls warm-up
WarmupBeforeCall == {"fetch0", "v3wait"}
WaitForCounterReset == {"ha_wait", "ha_fetch"}

C11_FetchEndsByTimeout ==
    /\ fd.state = "polling" => fd.elapsed <= fd.timeout + 1
    /\ fd.state = "returned"
         => /\ fd.res \in 1 .. Len(fd.streams)
            /\ fd.streams[fd.res].selected /\ fd.streams[fd.res].depth

\* the frame rates that work at the resolution selected by the look-up
WorkingFps == {i \in 1 .. Len(sv.fps_values) : <<sv.res_id1, i>> \in sv.supported}
\* the combination selected by the look-up is supported
AskedIsSupported == <<sv.res_id1, sv.fps_id1>> \in sv.supported

C13_MediansOverAllBundles ==
    dm.state = "returned"
        => /\ dm.median_fill_rate = MedianOf(dm.fill_rates)
           /\ dm.median_rms = MedianOf(dm.all_rmses)

\* C14: the patched table has the size of the old one and differs from it at
\* most in intrinsic_right.x.x, intrinsic_right.x.y and the checksum; its
\* checksum is the CRC32 of its own body whatever checksum the old table
\* carried; with ratio 1 the body is the old body; _old_calib is not changed.
C14_PatchKeepsTheRest ==
    tb.state = "patched"
        => /\ Len(tb._new_calib.body) = Len(tb.old0.body)
           /\ \A i \in 1 .. Len(tb.old0.body) :
                i \notin {RightXX, RightXY} => tb._new_calib.body[i] = tb.old0.body[i]
           /\ tb._new_calib.crc32 = calc_crc32(tb._new_calib.body, 0)
           /\ tb.ratio = <<1, 1>>
                => /\ tb._new_calib.body = tb.old0.body
                   /\ tb._new_calib.crc32 = calc_crc32(tb.old0.body, 0)
           /\ tb._old_calib = tb.old0

\* C14 witness: a table with a checksum that is not the one of its body has
\* been patched with a ratio that changes both fields
C14_PatchedWithStaleChecksum ==
    /\ tb.state = "patched"
    /\ tb.old0.crc32 # calc_crc32(tb.old0.body, 0)
    /\ tb._new_calib.body[RightXX] # tb.old0.body[RightXX]
    /\ tb._new_calib.body[RightXY] # tb.old0.body[RightXY]

\* the parameters left by the call that are _max_change or more away from the
\* current colour intrinsics
UvFarParameters ==
    {k \in {"fx", "fy", "ppx", "ppy"} : Abs(uv._color_intrin[k] - uv[k]) >= uv._max_change}

\* C15: calibrate returns true only if fx, fy, ppx and ppy are each less
\* than _max_change away from the current colour intrinsics, and false as
\* soon as one of them is _max_change or more away.
C15_TrueOnlyWithinMaxChange ==
    uv.state = "returned"
        => /\ uv.result => UvFarParameters = {}
           /\ UvFarParameters # {} => ~uv.result

\* C15 witness: both fits were stable, one parameter is exactly _max_change
\* away and the call has returned false
C15_StableFitAtLimitRejected ==
    /\ uv.state = "returned" /\ uv.d_x > 0 /\ uv.d_y > 0
    /\ UvFarParameters = {"fx"}
    /\ Abs(uv._color_intrin.fx - uv.fx) = uv._max_change
    /\ ~uv.result

\* C16: a session ends done or failed and never both: once a calibration
\* method has recorded a failure the session does not set done.
C16_DoneOrFailedNotBoth == ~(_done /\ _failed)

\* C17: a session whose action is UVMAPPING issues no firmware calibration
\* call, whatever host_assistance is.
C17_UvMappingCallsNoFirmware == action = "UVMAPPING" => fw_calls = <<>>

\* C18: at most one thread is inside process_flow: no session is started
\* while the worker of the session before has not left it.
C18_OneWorkerInProcessFlow == wpc # "race"

\* C19: the run of calibrate() an automatic retry starts (toggle set, action
\* ON_CHIP_FL_CALIB or ON_CHIP_OB_CALIB) changes speed_fl, clears toggle and
\* takes the firmware timeout of 12000 ms, whatever speed_fl was.
C19_RetryAlternatesSpeedFl ==
    [][(cpc = "entry" /\ toggle /\ action \in FlObActions)
          => (speed_fl' # speed_fl /\ ~toggle' /\ loc'.occ_timeout_ms = 12000)]_vars

\* C20: the selection a session keeps in _ui to restore later is the
\* selection the sensor had when the session's process_flow started.
C20_SnapshotTakenBeforeOverride ==
    (wpc # "race" /\ w._ui # "null") => w._ui = s0.ui

\* a host-assisted run of calibrate() and the phases the claim names
HostAssistedRun ==
    host_assistance # 0
        /\ action \in {"TARE_CALIB", "ON_CHIP_CALIB", "ON_CHIP_FL_CALIB", "ON_CHIP_OB_CALIB"}
WarmupPhase == {"fetch0", "v3wait", "fw_init", "ha_wait"}
SamplingPhase == {"sample", "ob_sample1", "ob_wait2", "ob_sample2", "tare_sample", "tare_fetch"}

\* C21: in a host-assisted run of calibrate() the progress never decreases
\* from one step to the next, is at most 20 during the warm-up and within
\* 20..80 during the sampling.
C21_HostAssistedProgressPhases ==
    /\ [][(HostAssistedRun /\ cpc' \notin {"threw", "fault"}) => _progress' >= _progress]_vars
    /\ [](HostAssistedRun => /\ cpc \in WarmupPhase => _progress <= 20
                             /\ cpc \in SamplingPhase => _progress \in 20 .. 80)

\* C22: try_start_viewer calls start_viewer at most twice, the second time
\* only after the first saw no frame; it throws only after two calls that
\* saw no frame, with the viewer stopped; it returns after a call that saw a
\* frame, without a further call.  The workspace it leaves is the one
\* try_start_viewer of the session model computes.
C22_AtMostTwoStarts ==
    hc.unit = "try_start_viewer"
        => /\ hc.starts <= 2
           /\ Len(hc.seen) >= 1 /\ hc.seen[1] => hc.starts = 1 /\ hc.pos = "returned"
           /\ hc.pos = "thrown"
                => hc.starts = 2 /\ hc.seen = <<FALSE, FALSE>> /\ ~hc.ws.streaming
           /\ hc.pos = "returned" => hc.seen[Len(hc.seen)] /\ Len(hc.seen) = hc.starts
           /\ hc.pos \in {"returned", "thrown"}
                => LET r == try_start_viewer(hc.ws0, hc.seen[1], hc.seen[Len(hc.seen)])
                   IN  r.ws = hc.ws /\ r.thrown = (hc.pos = "thrown")

\* C22 witness: both calls of start_viewer polled to the end without a frame
\* and the call has thrown
C22_ThrownAfterTwoStarts ==
    /\ hc.unit = "try_start_viewer" /\ hc.pos = "thrown"
    /\ hc.starts = 2 /\ hc.count = StartPolls

\* the parameters of an axis are within _max_change of the colour intrinsics
UvAxisClose(f, pp) ==
    /\ Abs(uv._color_intrin[f] - uv[f]) < uv._max_change
    /\ Abs(uv._color_intrin[pp] - uv[pp]) < uv._max_change

\* C23: an axis whose determinant is not above 0.01 keeps the scale and the
\* offset that were passed, and in the call of calibrate_uv_mapping (which
\* passes zeros) such an axis does not make the call return false when the
\* parameters fitted for the other axis are within _max_change.
C23_DegenerateAxisDoesNotReject ==
    uv.state = "returned"
        => /\ uv.d_x <= 0 => uv.fx = uv.prior /\ uv.ppx = uv.prior
           /\ uv.d_y <= 0 => uv.fy = uv.prior /\ uv.ppy = uv.prior
           /\ (uv.prior = 0 /\ uv.d_x <= 0 /\ uv.d_y > 0 /\ UvAxisClose("fy", "ppy")) => uv.result
           /\ (uv.prior = 0 /\ uv.d_y <= 0 /\ uv.d_x > 0 /\ UvAxisClose("fx", "ppx")) => uv.result

\* bit n of the return code c
CodeBit(c, n) == (c \div (2 ^ n)) % 2 = 1

\* C24: health_1 is (c mod 2^12) / 1000, negative exactly when bit 24 of c is
\* set; health_2 is ((c div 2^12) mod 2^12) / 1000, negative exactly when
\* bit 25 is set; both magnitudes are at most 4.095.
C24_HealthDecoding ==
    (hc.unit = "health" /\ hc.pos = "done")
        => LET c == hc.h_both
               m1 == c % 4096
               m2 == (c \div 4096) % 4096
           IN  /\ hc._health_1 = IF CodeBit(c, 24) THEN 0 - m1 ELSE m1
               /\ hc._health_2 = IF CodeBit(c, 25) THEN 0 - m2 ELSE m2
               /\ Abs(hc._health_1) <= 4095 /\ Abs(hc._health_2) <= 4095

\* C24 witness: a code with bit 25 set, bit 24 clear and bits above 25 set
\* has been decoded to a positive health_1 and a negative health_2
C24_SecondScoreNegative ==
    /\ hc.unit = "health" /\ hc.pos = "done"
    /\ CodeBit(hc.h_both, 25) /\ ~CodeBit(hc.h_both, 24) /\ CodeBit(hc.h_both, 27)
    /\ hc._health_1 > 0 /\ hc._health_2 < 0

\* C25: after start_viewer has configured the streams, the enabled streams
\* of the depth sensor are exactly the ones the action requires and, for
\* UVMAPPING_CALIB, the enabled streams of the colour sensor are exactly the
\* colour stream it requires.
C25_EnabledStreamsExactlyRequired ==
    (hc.unit = "streams" /\ hc.pos = "done")
        => /\ hc.stream_enabled = (IF hc.two_streams THEN {hc._uid, hc._uid2} ELSE {hc._uid})
           /\ hc.action = "UVMAPPING_CALIB" => hc.color_enabled = {hc._uid_color}

\* C26: for each on-chip action the document passed to the first firmware
\* call is non-empty and carries the calibration type code (0, 1, 2) and the
\* host-assistance level; for ON_CHIP_CALIB and ON_CHIP_OB_CALIB it also
\* carries speed, step count and accuracy, and for ON_CHIP_FL_CALIB and
\* ON_CHIP_OB_CALIB the fl step count.
CalibTypeCode(act) ==
    CASE act = "ON_CHIP_CALIB" -> 0 [] act = "ON_CHIP_FL_CALIB" -> 1 [] OTHER -> 2

JsonHasKey(doc, key) == \E i \in 1 .. Len(doc) : doc[i][1] = key

JsonHas(doc, key, text) == \E i \in 1 .. Len(doc) : doc[i] = <<key, text>>

C26_FirstCallDocument ==
    (cpc = "in_fw" /\ fw_calls = <<"occ_init">>)
        => /\ loc.json # <<>>
           /\ JsonHas(loc.json, "calib type", ToString(CalibTypeCode(action)))
           /\ JsonHas(loc.json, "host assistance", ToString(host_assistance))
           /\ action \in {"ON_CHIP_CALIB", "ON_CHIP_OB_CALIB"}
                => /\ JsonHas(loc.json, "speed", ToString(speed))
                   /\ JsonHasKey(loc.json, "step count")
                   /\ JsonHasKey(loc.json, "accuracy")
           /\ action \in {"ON_CHIP_FL_CALIB", "ON_CHIP_OB_CALIB"}
                => JsonHas(loc.json, "fl step count", ToString(fl_step_count))

\* C27: a device routine that consumes a frame batch is invoked only with the
\* required number of complete tuples (50 frames, 25 pairs, 25 triples), every
\* queue of the batch holding that many frames; when the gathering loop ends
\* with fewer, the insufficient-frames failure is recorded, the routine is not
\* invoked and the persisted ground truth is unchanged; the ground-truth loop
\* waits for at most 99 frames.
Invoked == hc.invoked_with # <<>>

SampleLoops == {"sample", "ob_sample1", "ob_sample2"}

C28_SamplesStoredAtFrameCounter ==
    /\ [](cpc \in SampleLoops
            => /\ \A i \in DOMAIN fill_factor : fill_factor[i] \in 0 .. 10000
               /\ loc.total_frames <= TableCap
               /\ loc.frame_counter >= 0)
    /\ [][(cpc \in SampleLoops /\ cpc' = cpc /\ fill_factor' # fill_factor)
            => /\ loc.frame_counter # loc.prev_frame_counter
               /\ loc.frame_counter \in 0 .. loc.total_frames - 1
               /\ loc.frame_counter \in DOMAIN fill_factor
               /\ \A i \in DOMAIN fill_factor :
                    fill_factor'[i] = IF i = loc.frame_counter
                                      THEN FillFactorOf(BandCount(loc.f_valid, SamplesFlBand(cpc, action)),
                                                        BandSize(SamplesFlBand(cpc, action)))
                                      ELSE fill_factor[i]]_vars
    /\ [][(cpc = "ob_wait2" /\ cpc' = "ob_sample2")
            => \A i \in DOMAIN fill_factor : fill_factor'[i] = 0]_vars

C28_SecondPhaseSampled ==
    /\ cpc = "ob_sample2"
    /\ \E i \in DOMAIN fill_factor : fill_factor[i] > 0
    /\ \E i \in DOMAIN fill_factor : fill_factor[i] = 0

\* C29: get_depth_metrics samples at least one and at most 11 bundles of 31
\* frames, samples no further bundle after one whose RMS estimate is at least
\* 80% of the previous estimate or at most 10, and terminates when every
\* frame fetch returns.
C29_BundlesBoundedAndTerminates ==
    /\ [](hc.unit = "bundles"
            => /\ hc.bundles <= 11
               /\ hc.pos = "returned" => (hc.bundles >= 1 /\ hc.frames = 31 * hc.bundles)
               /\ (hc.pos = "begin" /\ hc.bundles >= 1)
                    => /\ hc.bundles <= 10
                       /\ hc.frames = 31 * hc.bundles
                       /\ hc.new_rms_std # <<>>
                       /\ ~(10 * hc.new_rms_std[1] >= 8 * hc.rms_std[1])
                       /\ ~(hc.new_rms_std[1] <= 10))
    /\ <>(hc.pos \in {"returned", "thrown"})

C29_ElevenBundles ==
    hc.unit = "bundles" /\ hc.pos = "returned" /\ hc.bundles = 11 /\ hc.new_rms_std = <<11>>

\* C30: in a host-assisted TARE_CALIB run the firmware calls are the initial
\* tare call, then incremental depth estimates, then one committing call that
\* is issued only after the frame counter has reached step_count and that a
\* run which returns has issued; a depth estimate is sent only when
\* average_step_count frames of the tick have been accumulated with at least
\* one valid pixel, at most once per tick of the frame counter, and the
\* accumulators are reset whenever the frame counter changes.
TareRun == action = "TARE_CALIB" /\ host_assistance # 0

C30_TareCallOrder ==
    /\ [](TareRun
            => /\ \A i \in 1 .. Len(fw_calls) :
                    /\ fw_calls[i] \in {"tare_init", "tare_depth", "tare_commit"}
                    /\ fw_calls[i] = "tare_init" <=> i = 1
                    /\ fw_calls[i] = "tare_commit" => i = Len(fw_calls)
               /\ cpc = "returned" => (fw_calls # <<>> /\ LastCall = "tare_commit"))
    /\ [][(TareRun /\ fw_calls' = Append(fw_calls, "tare_commit"))
            => loc.frame_counter >= step_count]_vars
    /\ [][(TareRun /\ fw_calls' = Append(fw_calls, "tare_depth"))
            => /\ loc.frame_counter < step_count
               /\ loc.frame_num + 1 = average_step_count
               /\ loc'.counter > 0]_vars
    /\ [][(TareRun /\ cpc = "tare_fetch" /\ cpc' = "tare_sample")
            => IF loc'.frame_counter # loc.frame_counter
               THEN loc'.frame_num = 0 /\ loc'.counter = 0
               ELSE /\ loc'.counter = loc.counter
                    /\ loc'.frame_num > loc.frame_num \/ loc.frame_num >= average_step_count]_vars

C30_CommittedAfterEstimates ==
    /\ TareRun /\ cpc = "returned"
    /\ Len(fw_calls) >= 4
    /\ fw_calls[2] = "tare_depth" /\ LastCall = "tare_commit"

\* C31: a host-assisted ON_CHIP_OB_CALIB run issues the initial call, the
\* phase-1 call (host assistance 2, total_frames(speed) fill factors) and the
\* phase-2 call (host assistance 3, fl_step_count fill factors) in this order
\* and a run that returns has issued exactly these three; phase-2 sampling
\* starts only after the phase-1 call has returned and the frame counter has
\* dropped below the phase-1 total_frames; each phase's call is issued only
\* after its sampling loop has seen the frame counter reach the phase's frame
\* total and fill_missing_data has returned the table.
ObRun == action = "ON_CHIP_OB_CALIB" /\ host_assistance # 0

ObCalls == <<"occ_init", "ob_ha2", "ob_ha3">>

TableHandedOver(pos, frames) ==
    /\ cpc = pos
    /\ loc.total_frames = frames
    /\ loc.frame_counter >= frames
    /\ \E oob \in OobOutcomes :
         /\ fill_missing_data(fill_factor, frames, oob).outcome = "returned"
         /\ fill_factor' = fill_missing_data(fill_factor, frames, oob).data

C31_ObThreeCallsInOrder ==
    /\ [](ObRun => /\ Len(fw_calls) <= 3
                   /\ \A i \in 1 .. Len(fw_calls) : fw_calls[i] = ObCalls[i]
                   /\ cpc = "returned" => fw_calls = ObCalls
                   /\ cpc \in {"ob_wait2", "ob_sample2"} => fw_calls = <<"occ_init", "ob_ha2">>)
    /\ [][(ObRun /\ fw_calls' = Append(fw_calls, "ob_ha2"))
            => TableHandedOver("ob_sample1", SpeedFrames(speed))]_vars
    /\ [][(ObRun /\ fw_calls' = Append(fw_calls, "ob_ha3"))
            => TableHandedOver("ob_sample2", fl_step_count)]_vars
    /\ [][(ObRun /\ cpc # "ob_wait2" /\ cpc' = "ob_wait2")
            => cpc = "in_fw" /\ LastCall = "ob_ha2"]_vars
    /\ [][(ObRun /\ cpc # "ob_sample2" /\ cpc' = "ob_sample2")
            => cpc = "ob_wait2" /\ loc.frame_counter < SpeedFrames(speed)]_vars

C31_ObRunReturned == ObRun /\ cpc = "returned" /\ fw_calls = ObCalls

\* C32: when stop_viewer returns, either the viewer has no streams or no
\* stream of a previously selected profile has received a frame within the
\* last 200 ms.
C32_StopReturnsAfterFramesStopped ==
    (hc.unit = "stop_viewer" /\ hc.pos = "returned")
        => \/ hc.streams = <<>>
           \/ \A i \in 1 .. Len(hc.streams) :
                hc.streams[i].selected => hc.streams[i].age > 200

\* C33: when the calibration method throws inside process_flow the rollback of
\* the handler runs (stop the viewer, restore the saved selection, restart
\* the streams if the sensor was streaming before) and the exception that
\* leaves process_flow is the one that was caught, whatever fails while the
\* viewer is stopped or restarted.
C33_RollbackKeepsPrimaryError ==
    (hc.unit = "rollback" /\ hc.pos = "left")
        => /\ hc.leaving = hc.primary
           /\ hc.steps = (IF hc.ws._was_streaming
                          THEN <<"stop_viewer", "restore_ui", "start_viewer">>
                          ELSE <<"stop_viewer", "restore_ui">>)
           /\ hc.ws._ui = "null"

C33_LeftAfterFailedRestart ==
    /\ hc.unit = "rollback" /\ hc.pos = "left" /\ hc.leaving = "runtime_error"
    /\ hc.ws._was_streaming /\ ~hc.ws.streaming

\* C34: whenever the emitter or the thermal-compensation option is written
\* back after a session, each is written with the value it had before the
\* session first overrode it.
C34_WrittenBackWithValueBeforeOverride ==
    [][(emitter_writes' > emitter_writes \/ thermal_writes' > thermal_writes)
         => (w'.emitter = s0.emitter /\ w'.thermal = s0.thermal)]_vars

\* C35: the table in use is written to the flash of the device only by the
\* Apply / Apply New button of the CALIB_COMPLETE screen of a finished
\* session with the new table selected, never while process_flow runs nor
\* by a failure, a retry or a dismiss; and once the user has left with the
\* original table selected, the device uses the old table and its flash is
\* what it was.
C35_PersistedOnlyByApplyNew ==
    /\ hc.unit = "tables"
    /\ \A i \in 1 .. Len(hc.kept) :
         hc.kept[i] = [update_state |-> "CALIB_COMPLETE", done |-> TRUE,
                       use_new_calib |-> TRUE, process_flow |-> FALSE]
    /\ hc.kept # <<>> => hc.update_state \in {"COMPLETE", "INITIAL_PROMPT"}
    /\ Len(hc.kept) <= 1
    /\ hc.dismissed /\ hc.original_chosen
         => hc.device = hc._old_calib /\ hc.kept = <<>> /\ hc.flash \in DeviceTables

\* C36: _old_calib is read from the device at the start of process_flow,
\* before any firmware calibration call and any table write of the session,
\* and keeps that value for the rest of the session, so that every
\* apply_calib(false) sends the table the device used when the session
\* started; and apply_calib never sends an empty table.
C36_OldTableIsTheOneAtSessionStart ==
    /\ hc.unit = "tables"
    /\ hc.pos # "capture" => hc._old_calib = hc.active0
    /\ hc.before_capture = [calls |-> 0, sent |-> <<>>]
    /\ \A i \in 1 .. Len(hc.sent) :
         /\ TableSize(hc.sent[i].table) > 0
         /\ ~hc.sent[i].use_new => hc.sent[i].table = hc.active0

\* C36, its case: the original table re-applied in a second session, whose
\* method handed back no table
C36_OriginalReapplied ==
    /\ hc.unit = "tables"
    /\ hc.sessions = 2
    /\ hc._new_calib = EmptyTable
    /\ \E i \in 1 .. Len(hc.sent) : ~hc.sent[i].use_new

\* C37: in an FL_CALIB session, on every connection type, the streams of
\* the two infrared imagers are distinct and both enabled whenever
\* calibrate_fl waits on their queues.
C37_BothIrStreamsEnabledWhileGathering ==
    (hc.unit = "fl_streams" /\ hc.pos \in {"gather", "failed", "done"})
        => /\ hc._uid # hc._uid2
           /\ {hc._uid, hc._uid2} \subseteq hc.stream_enabled
           /\ hc.waited \subseteq hc.stream_enabled

\* C38: every run of calibrate() ends, by a return or by an exception,
\* whatever frame counters the frames carry.
C38_CalibrateTerminates == <>(cpc \in {"returned", "threw", "fault"})

\* a run that does not end stays in one of the loops on the frame counter:
\* the pre-wait of version 3 (981) or a sampling loop (1055, 1159, 1232, 1337)
OnlyCounterLoopsRunForever ==
    <>(cpc \in {"returned", "threw", "fault"})
        \/ <>[](cpc \in {"v3wait", "sample", "ob_sample1", "ob_sample2",
                         "tare_sample", "tare_fetch"})

\* C39: whenever get_ground_truth has recorded a failure, the ground truth
\* stored in the configuration is the one stored before the session.
C39_StoredOnlyOnSuccess ==
    (hc.unit = "rect_truth" /\ hc.failures # <<>>) => hc.ground_truth_r = hc.stored0

\* the pixels of the columns [2*(width/5), 3*(width/5)) of the rows
\* [from, to), row by row
RoiPixels(frame_w, from, to) ==
    LET w5 == frame_w \div 5
    IN  [k \in 1 .. (to - from) * w5 |->
           ((from + ((k - 1) \div w5)) * frame_w) + (2 * w5) + ((k - 1) % w5)]

\* C40: for every frame size a sampler reads exactly the pixels of its rows
\* of the central region of interest, each once, a row every width pixels,
\* and no pixel outside the frame.
C40_SamplerReadsExactlyTheRoi ==
    hc.unit = "sampler"
        => /\ \A k \in 1 .. Len(hc.read) : hc.read[k] \in 0 .. (hc.width * hc.height - 1)
           /\ hc.pos = "done" => hc.read = RoiPixels(hc.width, hc.from, hc.to)

====
